---------------------------- MODULE Spec2Model ----------------------------
(***************************************************************************)
(* A model of the proxy-fleet evaluator (v2ray_scrapper): the cache and    *)
(* scheduler state machine of SubscriptionService, the HTTP handlers of    *)
(* main.py that drive it, and the batch life cycle of XrayService.         *)
(*                                                                         *)
(* The program is a single asyncio event loop.  A state of the model is a  *)
(* moment at which every task is parked at a suspension point (an await    *)
(* that really yields); an action is the code one task runs between two    *)
(* suspension points.  An await that cannot yield (an uncontended          *)
(* asyncio.Lock, a coroutine that returns before its first yield) is part  *)
(* of the action around it.                                                *)
(***************************************************************************)
EXTENDS Integers, Sequences, FiniteSets, TLC

(***************************************************************************)
(* Optional values: Python's None and "a value".                           *)
(***************************************************************************)
None == << >>
Some(x) == << x >>
IsNone(o) == o = << >>
The(o) == o[1]

Min(a, b) == IF a <= b THEN a ELSE b

(***************************************************************************)
(* Configuration (core/config.py).  Every Settings field is read from the  *)
(* environment; the model runs the program under a small configuration.    *)
(***************************************************************************)
BATCH_SIZE == 1
MAX_DELAY_MS == 2
CACHE_INTERVAL_SECONDS == 2
SITE_CACHE_TTL_SECONDS == 1
PRECHECK_SITES == << "pre" >>
GITHUB_PUSH_ENABLED == TRUE
NUM_SUB_URLS == 2

(***************************************************************************)
(* Bounds of the model.                                                    *)
(*   TopN       the length of the cached head; the source writes 25        *)
(*              (subscription_service.py:181, :260, main.py:64); it is     *)
(*              scaled so that the head really truncates the working set.  *)
(*   MaxFeedLen the longest feed (descriptors per subscription body).      *)
(***************************************************************************)
TopN == 1
MaxFeedLen == 2

(***************************************************************************)
(* Descriptors.  A parsed descriptor is a Python dict; the caches, the     *)
(* batches and the feeds hold references to such dicts.  Pool is the heap  *)
(* of parsed descriptors and a reference is an index into it.  A field the *)
(* dict lacks (or holds None for) reads "None", as dict.get returns None.  *)
(***************************************************************************)
Blank ==
  [protocol |-> "None", remark |-> "None", address |-> "None", port |-> "None",
   vless_id |-> "None", vmess_id |-> "None", password |-> "None",
   method |-> "None", flow |-> "None", type |-> "None", security |-> "None",
   path |-> "None", tls |-> "None", aid |-> "None", obfs |-> "None",
   host |-> "None", sni |-> "None", raw_uri |-> "None",
   encryption |-> "None", fp |-> "None", pbk |-> "None", sid |-> "None",
   insecure |-> "None", obfs_password |-> "None"]

Pool ==
  << [Blank EXCEPT !.protocol = "trojan", !.address = "a.example", !.port = 443,
                   !.password = "pw", !.remark = "first",
                   !.raw_uri = "trojan://pw@a.example:443#first"],
     [Blank EXCEPT !.protocol = "trojan", !.address = "a.example", !.port = 443,
                   !.password = "pw", !.remark = "second",
                   !.raw_uri = "trojan://pw@a.example:443#second"],
     [Blank EXCEPT !.protocol = "vless", !.address = "b.example", !.port = 443,
                   !.vless_id = "uuid", !.security = "none", !.type = "tcp",
                   !.remark = "third",
                   !.raw_uri = "vless://uuid@b.example:443#third"] >>

Refs == 1 .. Len(Pool)

(***************************************************************************)
(* _generate_fingerprint.  Python's hash of a tuple is modelled by the     *)
(* tuple itself (no collisions between distinct tuples).                   *)
(***************************************************************************)
generate_fingerprint(server) ==
  CASE server.protocol = "vless" ->
         << "vless", server.address, server.port, server.vless_id, server.flow,
            server.type, server.security, server.path >>
    [] server.protocol = "vmess" ->
         << "vmess", server.address, server.port, server.vmess_id, server.type,
            server.security, server.path, server.tls, server.aid >>
    [] server.protocol = "trojan" ->
         << "trojan", server.address, server.port, server.password >>
    [] server.protocol = "shadowsocks" ->
         << "shadowsocks", server.address, server.port, server.method,
            server.password >>
    [] server.protocol = "hysteria2" ->
         << "hysteria2", server.address, server.port, server.password,
            server.obfs >>
    [] OTHER -> << server.raw_uri >>

Fp(ref) == generate_fingerprint(Pool[ref])


(***************************************************************************)
(* fetch_subscription_servers, after the gather: `results` holds one       *)
(* parsed batch per SUB_URLS entry, in SUB_URLS order.  seen_fingerprints  *)
(* is an insertion-ordered dict: it is modelled by the sequence of its     *)
(* (fingerprint, server) items.                                            *)
(***************************************************************************)
RECURSIVE Flatten(_)
Flatten(results) ==
  IF results = << >> THEN << >> ELSE Head(results) \o Flatten(Tail(results))

HasKey(seen, fp) == \E k \in 1 .. Len(seen) : seen[k][1] = fp

\* seen_fingerprints[fp] = server without the `not in` test: the key keeps
\* its place, the value is replaced by the later descriptor.
RECURSIVE SeenAfterOverwriting(_, _)
SeenAfterOverwriting(seen, servers) ==
  IF servers = << >> THEN seen
  ELSE LET server == Head(servers)
           fp == Fp(server)
       IN  SeenAfterOverwriting(
             IF HasKey(seen, fp)
             THEN [k \in 1 .. Len(seen) |->
                     IF seen[k][1] = fp THEN << fp, server >> ELSE seen[k]]
             ELSE Append(seen, << fp, server >>),
             Tail(servers))

RECURSIVE SeenAfter(_, _)
SeenAfter(seen, servers) ==
  IF servers = << >> THEN seen
  ELSE LET server == Head(servers)
           fp == Fp(server)
       IN  SeenAfter(IF HasKey(seen, fp) THEN seen ELSE Append(seen, << fp, server >>),
                     Tail(servers))

DictValues(seen) == [k \in 1 .. Len(seen) |-> seen[k][2]]

dedup_servers(results) == DictValues(SeenAfter(<< >>, Flatten(results)))

LOW_INTERNET_CONS == FALSE
LOW_INTERNET_LIMIT == 50

fetch_subscription_servers(results) ==
  LET final_list == dedup_servers(results)
  IN  IF LOW_INTERNET_CONS
      THEN SubSeq(final_list, 1, Min(LOW_INTERNET_LIMIT, Len(final_list)))
      ELSE final_list

(***************************************************************************)
(* Delays.  A measured delay is a float of milliseconds; the model holds   *)
(* it in half-milliseconds, so that round() has ties to break.  Inf is     *)
(* float("inf").                                                           *)
(***************************************************************************)
Inf == 1000000

\* The outcomes of a latency probe through a descriptor: the delay its server
\* answers with (MAX_DELAY_MS exactly for the first two descriptors, 0.5 ms
\* for the third, so that ranking reorders a feed), or a failed probe.
DelayOutcomes(ref) == {IF ref = 3 THEN 1 ELSE 2 * MAX_DELAY_MS, Inf}

\* d <= self.settings.MAX_DELAY_MS, on the float
WithinMaxDelay(d) == d <= 2 * MAX_DELAY_MS

\* Python's round(): to the nearest integer, ties to the even one.
round(d) ==
  IF d % 2 = 0 THEN d \div 2
  ELSE LET lo == (d - 1) \div 2 IN IF lo % 2 = 0 THEN lo ELSE lo + 1

\* sorted(..., key=lambda item: item[1]): a stable sort by delay.
RECURSIVE InsertByDelay(_, _)
InsertByDelay(sorted, item) ==
  IF sorted = << >> THEN << item >>
  ELSE IF item.d < Head(sorted).d THEN << item >> \o sorted
  ELSE << Head(sorted) >> \o InsertByDelay(Tail(sorted), item)

RECURSIVE SortedByDelay(_)
SortedByDelay(items) ==
  IF items = << >> THEN << >>
  ELSE InsertByDelay(SortedByDelay(SubSeq(items, 1, Len(items) - 1)), items[Len(items)])

\* The results enriched in the order they were measured, none dropped.
enrich_unranked(all_results) ==
  [k \in 1 .. Len(all_results) |->
     [s |-> all_results[k].s, delay |-> round(all_results[k].d)]]

\* compute_top_servers, lines 145-168: filter, rank, enrich.  An enriched
\* copy keeps the reference to the descriptor it was cloned from and its
\* rounded delay; country code, flag, remark and raw_uri are functions of
\* these two.
rank_and_enrich(all_results) ==
  LET successful == SortedByDelay(SelectSeq(all_results, LAMBDA r : WithinMaxDelay(r.d)))
  IN  [k \in 1 .. Len(successful) |->
         [s |-> successful[k].s, delay |-> round(successful[k].d)]]

\* top_servers[:25]
head_of(top_servers) == SubSeq(top_servers, 1, Min(TopN, Len(top_servers)))

\* servers[i : i + BATCH_SIZE], i counted from 0 as in the source
batch_of(servers, i) == SubSeq(servers, i + 1, Min(i + BATCH_SIZE, Len(servers)))


(***************************************************************************)
(* The state.                                                              *)
(***************************************************************************)
\* The tasks of the event loop: the periodic loop (start_periodic_update),
\* a client of /servers/live and a client of /subscription/site-specific.
Tasks == {"loop", "live", "site"}

\* The target URLs a client asks for: the one PRECHECK_SITES names, so that
\* requests meet the entries the refresh stores as well as their own.
Urls == {"pre"}

\* The keys site_cache can get: the pre-checked URL and one that is not in
\* PRECHECK_SITES.
SiteUrls == Urls \cup {"other"}

VARIABLES
  pc,               \* [Tasks -> label]: the suspension point each task is parked at
  loc,              \* [Tasks -> record]: the local variables of the running call
  processing_lock,  \* SubscriptionService._processing_lock.locked()
  cached_all,       \* SubscriptionService._cached_all (None or a list)
  cached_top25,     \* SubscriptionService._cached_top25
  site_cache,       \* SubscriptionService._site_cache: url -> None | (age, list)
  kv,               \* the value under "working_servers" in the KV store
  redis,            \* StorageService.redis is set (the connection came up)
  sleep_left,       \* seconds left of the loop's asyncio.sleep (0: none)
  proc,             \* [Tasks -> "none" | "running" | "exited"]: the batch's engine
  tmp,              \* [Tasks -> BOOLEAN]: the batch's temp config file exists
  orphans,          \* engines still running that no batch owns any more
  leaked,           \* temp config files on disk that no batch owns any more
  resp,             \* the HTTP response the last step sent (None: it sent none)
  stopping,         \* the event loop is being torn down
  cancelled,        \* the tasks that have received their CancelledError
  gathered,         \* fetch_subscription_servers run on its own: `results`
  final_list,       \* ... and what it returned (None: it has not run)
  held,             \* the small locks (_cache_lock, _site_cache_lock) a task
                    \* holds at the await it is parked at
  arg,              \* a function of the parsing/probing code run on its own:
  ret               \* its argument, and what it returned (None: it has not run)

vars == << pc, loc, processing_lock, cached_all, cached_top25, site_cache, kv,
           redis, sleep_left, proc, tmp, orphans, leaked, resp, stopping,
           cancelled, gathered, final_list, held, arg, ret >>

Loc0 ==
  [kind |-> "none", servers |-> << >>, i |-> 0, all_results |-> << >>,
   top |-> << >>, url |-> "none", to_test |-> << >>, successful |-> << >>,
   site_idx |-> 0, pending |-> "none", batch_results |-> << >>,
   ready |-> "none"]

\* What the KV store may hold at boot: nothing, an empty list, or a working
\* set an earlier run saved.
KvAtBoot ==
  { None, Some(<< >>),
    Some(<< [s |-> 1, delay |-> 0], [s |-> 3, delay |-> 2] >>) }

Init ==
  /\ pc = [t \in Tasks |-> IF t = "loop" THEN "boot" ELSE "idle"]
  /\ loc = [t \in Tasks |-> Loc0]
  /\ processing_lock = FALSE
  /\ cached_all = None
  /\ cached_top25 = None
  /\ site_cache = [u \in SiteUrls |-> None]
  /\ kv \in KvAtBoot
  /\ redis = FALSE
  /\ sleep_left = 0
  /\ proc = [t \in Tasks |-> "none"]
  /\ tmp = [t \in Tasks |-> FALSE]
  /\ orphans = 0
  /\ leaked = 0
  /\ resp = None
  /\ stopping = FALSE
  /\ cancelled = {}
  /\ gathered = << >>
  /\ final_list = None
  /\ held = {}
  /\ arg = None
  /\ ret = None

(***************************************************************************)
(* What one atomic stretch of a task's code does to the shared state.      *)
(***************************************************************************)
U(pcv, l) ==
  [pc |-> pcv, loc |-> l, acquire |-> FALSE, release |-> FALSE, swap |-> None,
   store |-> None, resp |-> None, mktmp |-> FALSE, sleep |-> FALSE,
   holds |-> {}]

Response(task, code, body, src, age, url) ==
  [task |-> task, code |-> code, body |-> body, src |-> src, age |-> age,
   url |-> url]

\* A check that never sees the lock held.
is_processing_never == FALSE

\* SubscriptionService.is_processing / self._processing_lock.locked()
is_processing == processing_lock

\* The body entered without the lock being taken.
async_with_nothing(u) == u

\* `async with self._processing_lock:` entered by a task whose next stretch
\* is u.  asyncio.Lock.acquire takes a free lock without yielding; on a held
\* lock the task is queued behind it.
async_with_processing_lock(u) ==
  IF processing_lock THEN U("blocked", u.loc) ELSE [u EXCEPT !.acquire = TRUE]

\* A block under _cache_lock that is still open at the await that ends the
\* stretch.
cache_lock_across_await(u) == [u EXCEPT !.holds = @ \cup {"cache_lock"}]

\* `async with self._cache_lock:` around a body with no await (lines
\* 179-181, 258-260, 270-271, 274-275, 287-288): the free lock is taken
\* without yielding and released at the end of the block, inside the
\* stretch u; what u still holds when it suspends is unchanged.
async_with_cache_lock(u) == [u EXCEPT !.holds = @ \ {"cache_lock"}]

\* `async with self._site_cache_lock:` (lines 220-221, 279-283, 299-300).
async_with_site_cache_lock(u) == [u EXCEPT !.holds = @ \ {"site_cache_lock"}]

\* The end of update_cache: the lock is released and the loop sleeps.
EndTick(l) == [U("sleep", Loc0) EXCEPT !.release = TRUE, !.sleep = TRUE]

RECURSIVE StartPrecheck(_, _, _, _)
RECURSIVE Raise(_, _, _)
RECURSIVE StartBatch(_, _, _)

\* An exception in a request that leaves processing_lock held.
raise_keeps_lock(t, l, tmpok) ==
  CASE t = "loop" /\ l.kind = "lat" -> EndTick(l)
    [] t = "loop" /\ l.kind = "site" -> StartPrecheck(t, l, l.site_idx + 1, tmpok)
    [] OTHER ->
         [U("idle", Loc0) EXCEPT
            !.resp = Some(Response(t, "500", << >>, "none", 0, l.url))]

\* The first lines of run_test_batch / of one iteration of
\* evaluate_site_accessibility, up to the first await: the config is built
\* and NamedTemporaryFile creates the file (tmpok) or raises OSError.
StartBatch(t, l, tmpok) ==
  IF tmpok THEN [U("b_write", [l EXCEPT !.pending = "none", !.batch_results = << >>])
                   EXCEPT !.mktmp = TRUE]
  ELSE Raise(t, l, tmpok)

\* An Exception leaves the evaluator (compute_top_servers) or the site probe
\* (evaluate_site_accessibility).
Raise(t, l, tmpok) ==
  CASE t = "loop" /\ l.kind = "lat" -> EndTick(l)                 \* caught at 190
    [] t = "loop" /\ l.kind = "site" ->
         StartPrecheck(t, l, l.site_idx + 1, tmpok)               \* caught at 227
    [] OTHER ->                                                   \* HTTP 500
         [U("idle", Loc0) EXCEPT !.release = TRUE,
                                 !.resp = Some(Response(t, "500", << >>, "none", 0, l.url))]

\* _handle_precheck_sites from its k-th site on.
StartPrecheck(t, l, k, tmpok) ==
  IF k > Len(PRECHECK_SITES) THEN EndTick(l)
  ELSE StartBatch(t, [l EXCEPT !.kind = "site", !.url = PRECHECK_SITES[k],
                               !.to_test = l.top, !.successful = << >>,
                               !.i = 0, !.site_idx = k], tmpok)

\* _handle_precheck_sites
AfterPush(t, l, tmpok) ==
  IF PRECHECK_SITES # << >> /\ l.top # << >> THEN StartPrecheck(t, l, 1, tmpok)
  ELSE EndTick(l)

\* _handle_github_push (the token and the repository URL are configured)
AfterPersist(t, l, tmpok) ==
  IF GITHUB_PUSH_ENABLED /\ l.top # << >> THEN U("push", l)
  ELSE AfterPush(t, l, tmpok)

\* compute_top_servers has returned top_servers to update_cache (the loop)
\* or to get_servers_live.
\* A live run that swaps the caches as a refresh does.
live_swaps_caches(top) == Some(top)

\* get_servers_live only slices and returns top_servers (main.py:60-65).
live_keeps_caches(top) == None

\* An update_cache that assigns the caches only when the result is not empty.
AfterComputeKeepingOnEmpty(t, l, top, tmpok) ==
  IF t = "loop"
  THEN LET l1 == [l EXCEPT !.top = top]
           u == IF redis THEN U("persist", l1) ELSE AfterPersist(t, l1, tmpok)
       IN  IF top = << >> THEN u
           ELSE async_with_cache_lock([u EXCEPT !.swap = Some(top)])
  ELSE [U("idle", Loc0) EXCEPT
          !.release = TRUE,
          !.resp = Some(IF top = << >>
                        THEN Response(t, "503", << >>, "none", 0, "none")
                        ELSE Response(t, "200", head_of(top), "probe", 0, "none"))]

AfterCompute(t, l, top, tmpok) ==
  IF t = "loop"
  THEN LET l1 == [l EXCEPT !.top = top]
           u == IF redis THEN U("persist", l1) ELSE AfterPersist(t, l1, tmpok)
       IN  async_with_cache_lock([u EXCEPT !.swap = Some(top)])
  ELSE [U("idle", Loc0) EXCEPT
          !.release = TRUE,
          !.swap = live_keeps_caches(top),
          !.resp = Some(IF top = << >>
                        THEN Response(t, "503", << >>, "none", 0, "none")
                        ELSE Response(t, "200", head_of(top), "probe", 0, "none"))]

\* The evaluator ranks and returns after its first batch, whatever is left.
AfterFirstLatBatch(t, l, tmpok) ==
  LET l1 == [l EXCEPT !.all_results = @ \o l.batch_results, !.i = @ + BATCH_SIZE]
  IN  AfterCompute(t, l1, rank_and_enrich(l1.all_results), tmpok)

\* run_test_batch has returned batch_results to compute_top_servers.
AfterLatBatch(t, l, tmpok) ==
  LET l1 == [l EXCEPT !.all_results = @ \o l.batch_results, !.i = @ + BATCH_SIZE]
  IN  IF l1.i < Len(l1.servers) THEN StartBatch(t, l1, tmpok)
      ELSE AfterCompute(t, l1, rank_and_enrich(l1.all_results), tmpok)

\* A site probe whose whole input list is stored, reachable or not.
AfterSiteEvalStoringTested(t, l, tmpok) ==
  LET entry == Some([url |-> l.url, servers |-> l.to_test])
  IN  async_with_site_cache_lock(
        IF t = "loop"
        THEN [ (IF GITHUB_PUSH_ENABLED /\ l.successful # << >>
                THEN U("sitepush", l)
                ELSE StartPrecheck(t, l, l.site_idx + 1, tmpok))
               EXCEPT !.store = entry ]
        ELSE [U("idle", Loc0) EXCEPT
                !.release = TRUE, !.store = entry,
                !.resp = Some(Response(t, IF l.successful = << >> THEN "404" ELSE "200",
                                       l.successful, "probe", 0, l.url))])

\* evaluate_site_accessibility has returned successful_servers.
AfterSiteEval(t, l, tmpok) ==
  LET entry == Some([url |-> l.url, servers |-> l.successful])
  IN  async_with_site_cache_lock(
        IF t = "loop"
        THEN [ (IF GITHUB_PUSH_ENABLED /\ l.successful # << >>
                THEN U("sitepush", l)
                ELSE StartPrecheck(t, l, l.site_idx + 1, tmpok))
               EXCEPT !.store = entry ]
        ELSE [U("idle", Loc0) EXCEPT
                !.release = TRUE, !.store = entry,
                !.resp = Some(Response(t, IF l.successful = << >> THEN "404" ELSE "200",
                                       l.successful, "probe", 0, l.url))])

\* One iteration of evaluate_site_accessibility's loop has ended.
AfterSiteBatch(t, l, tmpok) ==
  LET l1 == [l EXCEPT !.i = @ + BATCH_SIZE]
  IN  IF l1.i < Len(l1.to_test) THEN StartBatch(t, l1, tmpok)
      ELSE AfterSiteEval(t, l1, tmpok)

\* A CancelledError leaves the task: every `async with` on the way out
\* releases its lock.
Cancelled(t) ==
  [U("dead", Loc0) EXCEPT !.release = pc[t] \notin {"boot", "sleep", "blocked"}]

\* update_cache without its locked() test: the tick waits for the lock.
TickEntryWithoutTest(l) ==
  async_with_processing_lock(U("fetch", [Loc0 EXCEPT !.kind = "lat"]))

\* A skipped tick that is tried again as soon as the loop runs.
TickEntryRetrying(l) ==
  IF is_processing THEN U("sleep", Loc0)
  ELSE async_with_processing_lock(U("fetch", [Loc0 EXCEPT !.kind = "lat"]))

\* update_cache, lines 172-176
TickEntry(l) ==
  IF is_processing THEN [U("sleep", Loc0) EXCEPT !.sleep = TRUE]
  ELSE async_with_processing_lock(U("fetch", [Loc0 EXCEPT !.kind = "lat"]))


(***************************************************************************)
(* Actions.                                                                *)
(***************************************************************************)
\* An empty result that resets the cache to its never-populated value.
cached_all_reset_when_empty(top_servers, old_all) ==
  IF top_servers = << >> THEN None ELSE Some(top_servers)

\* self._cached_all = top_servers (179-180) / = cached (259): always a list.
cached_all_with(top_servers, old_all) == Some(top_servers)

\* A block that assigns _cached_all and leaves _cached_top25 as it was.
top25_left_behind(top_servers, old_top25) == old_top25

\* self._cached_top25 = top_servers[:25], in the same `async with
\* self._cache_lock:` block as self._cached_all = top_servers (lines 179-181
\* and 258-260); the block has no await, so both belong to one stretch.
top25_with(top_servers, old_top25) == Some(head_of(top_servers))

\* Task t runs the stretch u and is then outside any batch: the batch it was
\* in (if any) has exited, leaving its temp file (fileLeft) or its engine
\* (a process still running) behind, and u may have created the temp file
\* of a next batch.
Apply(t, u, fileLeft) ==
  /\ pc' = [pc EXCEPT ![t] = u.pc]
  /\ loc' = [loc EXCEPT ![t] = u.loc]
  /\ processing_lock' = IF u.acquire THEN TRUE
                        ELSE IF u.release THEN FALSE ELSE processing_lock
  /\ cached_all' = IF IsNone(u.swap) THEN cached_all
                   ELSE cached_all_with(The(u.swap), cached_all)
  /\ cached_top25' = IF IsNone(u.swap) THEN cached_top25
                     ELSE top25_with(The(u.swap), cached_top25)
  /\ site_cache' = IF IsNone(u.store) THEN site_cache
                   ELSE [site_cache EXCEPT ![The(u.store).url] =
                           Some([age |-> 0, servers |-> The(u.store).servers])]
  /\ resp' = u.resp
  /\ sleep_left' = IF u.sleep THEN CACHE_INTERVAL_SECONDS
                   ELSE IF t = "loop" THEN 0 ELSE sleep_left
  /\ tmp' = [tmp EXCEPT ![t] = u.mktmp]
  /\ leaked' = IF fileLeft THEN leaked + 1 ELSE leaked
  /\ proc' = [proc EXCEPT ![t] = "none"]
  /\ orphans' = IF proc[t] = "running" THEN orphans + 1 ELSE orphans
  /\ held' = u.holds
  /\ UNCHANGED << gathered, final_list, arg, ret >>

\* Task t moves on inside its batch.
InBatch(t, pcv, l, procv) ==
  /\ pc' = [pc EXCEPT ![t] = pcv]
  /\ loc' = [loc EXCEPT ![t] = l]
  /\ proc' = [proc EXCEPT ![t] = procv]
  /\ UNCHANGED << processing_lock, cached_all, cached_top25, site_cache, kv,
                  redis, sleep_left, tmp, orphans, leaked, stopping,
                  cancelled, gathered, final_list, held, arg, ret >>
  /\ resp' = None

\* The teardown cancels every running task at the await it is parked at: no
\* task runs before each has received its CancelledError.
Running == {t \in Tasks : pc[t] \notin {"idle", "dead"}}
Runs(t) == ~stopping \/ Running \subseteq cancelled

\* What one fetch round can deliver: per SUB_URLS entry, the parsed batch of
\* the body the feed serves, or [] when that fetch failed.
FeedBodies == << << 1, 3 >>, << 1 >> >>
FeedResults ==
  { r \in [1 .. NUM_SUB_URLS -> {<< >>} \cup {FeedBodies[k] : k \in 1 .. NUM_SUB_URLS}] :
      \A k \in 1 .. NUM_SUB_URLS : r[k] \in {<< >>, FeedBodies[k]} }

\* A hydration without the `if cached:` test.
hydrate_whatever_loaded(cached, u) ==
  async_with_cache_lock([u EXCEPT !.swap = Some(cached)])

\* start_periodic_update, lines 257-260: a non-empty list loaded from the
\* KV store is put in both caches before the stretch u (the first
\* update_cache) runs; [] leaves them as they are.
hydrate(cached, u) ==
  IF cached # << >> THEN async_with_cache_lock([u EXCEPT !.swap = Some(cached)])
  ELSE u

\* start_periodic_update up to the first update_cache: the KV connection
\* comes up or not, load_servers delivers the stored list or [] (no
\* connection, no value, an error), a non-empty list hydrates the caches.
Boot ==
  /\ pc["loop"] = "boot" /\ Runs("loop")
  /\ \E up \in BOOLEAN, loaded \in BOOLEAN :
       LET cached == IF up /\ loaded /\ ~IsNone(kv) THEN The(kv) ELSE << >>
           u == TickEntry(Loc0)
       IN  /\ redis' = up
           /\ Apply("loop", hydrate(cached, u), FALSE)
  /\ UNCHANGED << kv, stopping, cancelled >>

\* asyncio.sleep(CACHE_INTERVAL_SECONDS) ends and update_cache is entered.
Wake ==
  /\ pc["loop"] = "sleep" /\ Runs("loop")
  /\ sleep_left = 0
  /\ Apply("loop", TickEntry(Loc0), FALSE)
  /\ UNCHANGED << kv, redis, stopping, cancelled >>

\* get_servers_live up to its first suspension.
LiveArrive ==
  /\ pc["live"] = "idle" /\ ~stopping
  /\ LET u == IF is_processing
              THEN [U("idle", Loc0) EXCEPT
                      !.resp = Some(Response("live", "429", << >>, "none", 0, "none"))]
              ELSE async_with_processing_lock(U("fetch", [Loc0 EXCEPT !.kind = "lat"]))
     IN  Apply("live", u, FALSE)
  /\ UNCHANGED << kv, redis, stopping, cancelled >>


\* A cache tested with `not cached`: None and [] alike.
not_cached(cached) == IsNone(cached) \/ The(cached) = << >>

\* `servers is None` / `cached_all is None` (main.py:44, :87)
not_initialized(cached) == IsNone(cached)

\* get_top_servers_dep, the dependency of /cache, /cache/raw and
\* /cache/base64: 503 while cached_top25 is None, else the cached head.  The
\* handler has no suspension point (get_top_25 takes the free _cache_lock).

GetTopServersDep ==
  /\ ~stopping
  /\ "cache_lock" \notin held
  /\ resp' = Some(IF not_initialized(cached_top25)
                  THEN Response("dep", "503", << >>, "none", 0, "none")
                  ELSE Response("dep", "200", The(cached_top25), "cache", 0, "none"))
  /\ UNCHANGED << gathered, final_list, held, arg, ret, pc, loc, processing_lock, cached_all, cached_top25, site_cache,
                  kv, redis, sleep_left, proc, tmp, orphans, leaked, stopping,
                  cancelled >>

\* get_cached_all_base64: 503 while cached_all is None, else all of it.
GetCachedAllBase64 ==
  /\ ~stopping
  /\ "cache_lock" \notin held
  /\ resp' = Some(IF not_initialized(cached_all)
                  THEN Response("all", "503", << >>, "none", 0, "none")
                  ELSE Response("all", "200", The(cached_all), "cache", 0, "none"))
  /\ UNCHANGED << gathered, final_list, held, arg, ret, pc, loc, processing_lock, cached_all, cached_top25, site_cache,
                  kv, redis, sleep_left, proc, tmp, orphans, leaked, stopping,
                  cancelled >>

\* An entry counted as fresh up to and including the TTL.
fresh_or_expiring(entry) == entry.age <= SITE_CACHE_TTL_SECONDS

\* (time.time() - cache_time) < SITE_CACHE_TTL_SECONDS
fresh(entry) == entry.age < SITE_CACHE_TTL_SECONDS

\* A cache lookup that is made only while no probe run holds the lock.
site_cache_hit_when_idle(entry) ==
  ~ is_processing /\ ~ IsNone(entry) /\ fresh(The(entry))

\* get_site_specific_servers, lines 279-283: the entry is there and younger
\* than the TTL; processing_lock is not looked at.
site_cache_hit(entry) == ~ IsNone(entry) /\ fresh(The(entry))

\* A None always taken for an empty cache.
none_means_not_ready == "503"

\* get_site_specific_subscription on a None: busy is tested first, whatever
\* made get_site_specific_servers return None (main.py:103-108).
none_means == IF is_processing THEN "429" ELSE "503"

\* get_site_specific_servers(url) up to its first suspension, and what
\* get_site_specific_subscription makes of its result.

SiteArriveFor(urls) ==
  /\ pc["site"] = "idle" /\ ~stopping
  /\ held = {}
  /\ \E url \in urls, tmpok \in BOOLEAN :
       LET entry == site_cache[url]
           servers_to_test == cached_all
           busy_or_not_ready ==
             [U("idle", Loc0) EXCEPT
                !.resp = Some(Response("site", none_means,
                                       << >>, "none", 0, url))]
           u == IF site_cache_hit(entry)
                THEN [U("idle", Loc0) EXCEPT
                        !.resp = Some(Response("site",
                                   IF The(entry).servers = << >> THEN "404" ELSE "200",
                                   The(entry).servers, "cache",
                                   The(entry).age, url))]
                ELSE IF IsNone(servers_to_test) \/ The(servers_to_test) = << >>
                THEN busy_or_not_ready
                ELSE IF is_processing
                THEN busy_or_not_ready
                ELSE LET l == [Loc0 EXCEPT !.kind = "site", !.url = url,
                                           !.to_test = The(servers_to_test)]
                         b == StartBatch("site", l, tmpok)
                     IN  IF b.pc = "b_write" THEN async_with_processing_lock(b)
                         ELSE [b EXCEPT !.release = FALSE]
       IN  Apply("site", async_with_site_cache_lock(async_with_cache_lock(u)),
                 FALSE)
  /\ UNCHANGED << kv, redis, stopping, cancelled >>

SiteArrive == SiteArriveFor(Urls)

\* The gather of fetch_subscription_servers completes; compute_top_servers
\* goes on to its first batch, or returns [] when there is nothing to probe.
FetchDoneFrom(t, Rounds) ==
  /\ pc[t] = "fetch" /\ Runs(t)
  /\ \E results \in Rounds, tmpok \in BOOLEAN :
       LET servers == fetch_subscription_servers(results)
           l == [loc[t] EXCEPT !.servers = servers, !.i = 0, !.all_results = << >>]
       IN  Apply(t, IF servers = << >> THEN AfterCompute(t, l, << >>, tmpok)
                    ELSE StartBatch(t, l, tmpok), FALSE)
  /\ UNCHANGED << kv, redis, stopping, cancelled >>

FetchDone(t) == FetchDoneFrom(t, FeedResults)

\* The members of the batch being probed.
Batch(l) == IF l.kind = "lat" THEN batch_of(l.servers, l.i) ELSE batch_of(l.to_test, l.i)

\* A batch whose engine never served a probe reported as measured.
AllMeasured(servers) == [k \in 1 .. Len(servers) |-> [s |-> servers[k], d |-> 1]]

\* return [(s, float("inf")) for s in servers]
AllInf(servers) == [k \in 1 .. Len(servers) |-> [s |-> servers[k], d |-> Inf]]

\* A finally block that kills a running engine at once.
kill_at_once(t, l, pending) ==
  LET l1 == [l EXCEPT !.pending = pending]
  IN  IF proc[t] = "running"
      THEN InBatch(t, "b_kill", l1, "running")
      ELSE InBatch(t, "b_remove", l1, proc[t])

\* The batch function has left its try block with outcome `pending`
\* ("return", "raise" or "cancel") and runs its finally block up to the
\* first await of it.
EnterFinally(t, l, pending) ==
  LET l1 == [l EXCEPT !.pending = pending]
  IN  IF proc[t] = "running"
      THEN InBatch(t, "b_term", l1, "running")         \* process.terminate()
      ELSE InBatch(t, "b_remove", l1, proc[t])

\* await asyncio.to_thread(json.dump, xray_config, tmp) returns.
BWrite(t) ==
  /\ pc[t] = "b_write" /\ Runs(t)
  /\ InBatch(t, "b_close", loc[t], proc[t])

\* await asyncio.to_thread(tmp.close); the try block is entered.
BClose(t) ==
  /\ pc[t] = "b_close" /\ Runs(t)
  /\ InBatch(t, "b_spawn", loc[t], proc[t])

\* await asyncio.create_subprocess_exec(...): the engine starts, or the
\* binary is missing (FileNotFoundError), or another OSError is raised.
\* run_test_batch catches both and returns +inf for every member;
\* evaluate_site_accessibility has no except clause.
BSpawn(t) ==
  /\ pc[t] = "b_spawn" /\ Runs(t)
  /\ \E outcome \in {"started", "missing", "oserror"} :
       IF outcome = "started"
       THEN InBatch(t, "b_ready", loc[t], "running")
       ELSE IF loc[t].kind = "lat"
       THEN EnterFinally(t, [loc[t] EXCEPT !.batch_results = AllInf(Batch(loc[t]))],
                         "return")
       ELSE EnterFinally(t, loc[t], "raise")

\* A readiness wait whose False sends the batch down the failure branch.
not_ready_means_failed(ready, procv) == ~ ready \/ procv = "exited"

\* `if process.returncode is not None:` after the readiness wait; the value
\* _wait_for_ports returned is not part of the test.
engine_failed_to_start(ready, procv) == procv = "exited"

\* await self._wait_for_ports(ports, timeout=3.0) returns True (a connection
\* to BASE_PORT was accepted) or False (the 3 s are over); the call is a
\* statement, so the value is dropped, and is kept here in `ready` until the
\* next step of the batch only so that it can be observed. Both values occur
\* with a running and with an exited engine.
BReady(t) ==
  /\ pc[t] = "b_ready" /\ Runs(t)
  /\ \E ready \in BOOLEAN :
       LET l == [loc[t] EXCEPT !.ready = IF ready THEN "True" ELSE "False"]
       IN  IF engine_failed_to_start(ready, proc[t])
           THEN InBatch(t, "b_readout", l, proc[t])
           ELSE InBatch(t, "b_probe", l, proc[t])

\* An early exit of the engine that ends the whole site probe with an
\* exception.
BReadoutRaising(t) ==
  /\ pc[t] = "b_readout" /\ Runs(t)
  /\ IF loc[t].kind = "lat"
     THEN EnterFinally(t, [loc[t] EXCEPT !.batch_results = AllInf(Batch(loc[t])),
                                         !.ready = "none"],
                       "return")
     ELSE EnterFinally(t, [loc[t] EXCEPT !.ready = "none"], "raise")

\* The engine exited early: stdout and stderr are read, then run_test_batch
\* returns +inf for every member and evaluate_site_accessibility continues.
BReadout(t) ==
  /\ pc[t] = "b_readout" /\ Runs(t)
  /\ IF loc[t].kind = "lat"
     THEN EnterFinally(t, [loc[t] EXCEPT !.batch_results = AllInf(Batch(loc[t])),
                                         !.ready = "none"],
                       "return")
     ELSE EnterFinally(t, [loc[t] EXCEPT !.ready = "none"], "return")

\* for server, was_successful in zip(batch, results): if was_successful: ...
Chosen(batch, results) ==
  LET idx == SelectSeq([k \in 1 .. Len(batch) |-> k], LAMBDA k : results[k])
  IN  [j \in 1 .. Len(idx) |-> batch[idx[j]]]

\* await asyncio.gather(*tasks): one outcome per member, by index.
BProbe(t) ==
  /\ pc[t] = "b_probe" /\ Runs(t)
  /\ LET batch == Batch(loc[t])
         n == Len(batch)
     IN  IF loc[t].kind = "lat"
         THEN \E results \in [1 .. n -> UNION {DelayOutcomes(r) : r \in Refs}] :
                /\ \A k \in 1 .. n : results[k] \in DelayOutcomes(batch[k])
                /\ EnterFinally(t, [loc[t] EXCEPT !.batch_results =
                                   [k \in 1 .. n |-> [s |-> batch[k], d |-> results[k]]],
                                   !.ready = "none"],
                                "return")
         ELSE \E results \in [1 .. n -> BOOLEAN] :
                EnterFinally(t, [loc[t] EXCEPT !.successful = @ \o Chosen(batch, results),
                                                !.ready = "none"],
                             "return")


\* A grace timeout after which the engine is neither killed nor awaited.
on_grace_timeout_give_up(t) == InBatch(t, "b_remove", loc[t], proc[t])

\* await asyncio.wait_for(process.wait(), timeout=2) ends: the engine has
\* exited (the following process.wait() returns at once), or the 2 s are over
\* and process.kill() is sent.
on_grace_timeout(t) == InBatch(t, "b_kill", loc[t], proc[t])

BTerm(t) ==
  /\ pc[t] = "b_term" /\ Runs(t)
  /\ IF proc[t] = "exited"
     THEN InBatch(t, "b_remove", loc[t], proc[t])
     ELSE on_grace_timeout(t)

\* await process.wait() after the kill returns: the engine has exited.
BKill(t) ==
  /\ pc[t] = "b_kill" /\ Runs(t)
  /\ proc[t] = "exited"
  /\ InBatch(t, "b_remove", loc[t], proc[t])

\* await asyncio.to_thread(os.remove, config_path) returns and the batch
\* function is left the way its try block decided.
BRemove(t) ==
  /\ pc[t] = "b_remove" /\ Runs(t)
  /\ \E tmpok \in BOOLEAN :
       LET l == loc[t]
       IN  Apply(t, CASE l.pending = "cancel" -> Cancelled(t)
                      [] l.pending = "raise" -> Raise(t, l, tmpok)
                      [] l.pending = "return" /\ l.kind = "lat" -> AfterLatBatch(t, l, tmpok)
                      [] OTHER -> AfterSiteBatch(t, l, tmpok),
                 FALSE)
  /\ UNCHANGED << kv, redis, stopping, cancelled >>

\* The engine of a batch exits: on its own, or after terminate or kill.
EngineExits(t) ==
  /\ proc[t] = "running" /\ Runs(t)
  /\ proc' = [proc EXCEPT ![t] = "exited"]
  /\ UNCHANGED << gathered, final_list, held, arg, ret, pc, loc, processing_lock, cached_all, cached_top25, site_cache,
                  kv, redis, sleep_left, tmp, orphans, leaked, stopping,
                  cancelled >>
  /\ resp' = None

\* An engine that outlived its batch exits.
OrphanExits ==
  /\ orphans > 0
  /\ Runs("loop")
  /\ orphans' = orphans - 1
  /\ UNCHANGED << gathered, final_list, held, arg, ret, pc, loc, processing_lock, cached_all, cached_top25, site_cache,
                  kv, redis, sleep_left, proc, tmp, leaked, stopping,
                  cancelled >>
  /\ resp' = None

\* A failed save that leaves save_servers as an exception: update_cache
\* catches it at line 190 and the tick ends there.
save_error_escapes(t, l, tmpok) == Raise(t, [l EXCEPT !.kind = "lat"], tmpok)

\* except Exception at storage_service.py:40-41: the error is logged and
\* save_servers returns to update_cache like a save that worked.
on_save_error(t, l, tmpok) == AfterPersist(t, l, tmpok)

\* await self.storage_service.save_servers("working_servers", top_servers):
\* the value is set, or the error is caught and logged (lines 40-41).
SaveDone(t) ==
  /\ pc[t] = "persist" /\ Runs(t)
  /\ \E saved \in BOOLEAN, tmpok \in BOOLEAN :
       /\ kv' = IF saved THEN Some(loc[t].top) ELSE kv
       /\ Apply(t, IF saved THEN AfterPersist(t, loc[t], tmpok)
                    ELSE on_save_error(t, loc[t], tmpok), FALSE)
  /\ UNCHANGED << redis, stopping, cancelled >>

\* await asyncio.to_thread(uploader.update_file_and_push, ...) returns; the
\* publisher catches its own failures.
PushDone(t) ==
  /\ pc[t] = "push" /\ Runs(t)
  /\ \E tmpok \in BOOLEAN : Apply(t, AfterPush(t, loc[t], tmpok), FALSE)
  /\ UNCHANGED << kv, redis, stopping, cancelled >>

\* _push_site_specific_list returns; the pre-check goes on to its next site.
SitePushDone(t) ==
  /\ pc[t] = "sitepush" /\ Runs(t)
  /\ \E tmpok \in BOOLEAN :
       Apply(t, StartPrecheck(t, loc[t], loc[t].site_idx + 1, tmpok), FALSE)
  /\ UNCHANGED << kv, redis, stopping, cancelled >>

\* A second passes on the wall clock: every site_cache entry is a second
\* older and the loop's sleep has a second less to go.  The model keeps
\* time.time() - cache_time (the age of an entry) in place of cache_time, as
\* only that difference is ever read (line 282); an age of
\* SITE_CACHE_TTL_SECONDS stands for that age or any greater one.
older(entry) == [entry EXCEPT !.age = Min(@ + 1, SITE_CACHE_TTL_SECONDS)]

Clock ==
  /\ ~stopping
  /\ site_cache' = [u \in SiteUrls |-> IF IsNone(site_cache[u]) THEN None
                                   ELSE Some(older(The(site_cache[u])))]
  /\ sleep_left' = IF sleep_left > 0 THEN sleep_left - 1 ELSE 0
  /\ UNCHANGED << gathered, final_list, held, arg, ret, pc, loc, processing_lock, cached_all,
                  cached_top25, kv, redis, proc, tmp, orphans, leaked,
                  stopping, cancelled >>
  /\ resp' = None

\* A cancelled task inside the try block of a batch goes to the finally block.
InBatchCancel(t, pcv, procv) ==
  /\ pc' = [pc EXCEPT ![t] = pcv]
  /\ loc' = [loc EXCEPT ![t] = [@ EXCEPT !.pending = "cancel", !.ready = "none"]]
  /\ proc' = [proc EXCEPT ![t] = procv]
  /\ UNCHANGED << processing_lock, cached_all, cached_top25, site_cache, kv,
                  redis, sleep_left, tmp, orphans, leaked, stopping,
                  gathered, final_list, held, arg, ret >>
  /\ resp' = None

\* The event loop is torn down: every task that is still running is
\* cancelled, once, and no request is accepted any more.
Shutdown ==
  /\ ~stopping
  /\ stopping' = TRUE
  /\ UNCHANGED << gathered, final_list, held, arg, ret, pc, loc, processing_lock, cached_all, cached_top25, site_cache,
                  kv, redis, sleep_left, proc, tmp, orphans, leaked,
                  cancelled >>
  /\ resp' = None

\* The CancelledError is raised at the await task t is parked at.
Cancel(t) ==
  /\ stopping /\ t \notin cancelled
  /\ pc[t] \notin {"idle", "dead"}
  /\ cancelled' = cancelled \cup {t}
  /\ CASE pc[t] \in {"b_write", "b_close"} ->
            \* outside the try block: nothing removes the file
            /\ Apply(t, Cancelled(t), TRUE)
            /\ UNCHANGED << kv, redis, stopping >>
       [] pc[t] = "b_spawn" ->
            \* create_subprocess_exec kills and reaps what it started
            /\ InBatchCancel(t, "b_remove", "none")
       [] pc[t] \in {"b_ready", "b_probe", "b_readout"} ->
            /\ InBatchCancel(t, IF proc[t] = "running" THEN "b_term" ELSE "b_remove",
                             proc[t])
       [] pc[t] \in {"b_term", "b_kill"} ->
            \* inside the finally block: the rest of it is skipped
            /\ Apply(t, Cancelled(t), TRUE)
            /\ UNCHANGED << kv, redis, stopping >>
       [] pc[t] = "b_remove" ->
            \* the worker thread has started os.remove, or never will
            /\ \E removed \in BOOLEAN : Apply(t, Cancelled(t), ~removed)
            /\ UNCHANGED << kv, redis, stopping >>
       [] OTHER ->
            /\ Apply(t, Cancelled(t), FALSE)
            /\ UNCHANGED << kv, redis, stopping >>

Next ==
  \/ Boot
  \/ Wake
  \/ LiveArrive
  \/ SiteArrive
  \/ GetTopServersDep
  \/ GetCachedAllBase64
  \/ \E t \in Tasks : FetchDone(t)
  \/ \E t \in Tasks : BWrite(t)
  \/ \E t \in Tasks : BClose(t)
  \/ \E t \in Tasks : BSpawn(t)
  \/ \E t \in Tasks : BReady(t)
  \/ \E t \in Tasks : BReadout(t)
  \/ \E t \in Tasks : BProbe(t)
  \/ \E t \in Tasks : BTerm(t)
  \/ \E t \in Tasks : BKill(t)
  \/ \E t \in Tasks : BRemove(t)
  \/ \E t \in Tasks : EngineExits(t)
  \/ OrphanExits
  \/ \E t \in Tasks : SaveDone(t)
  \/ \E t \in Tasks : PushDone(t)
  \/ \E t \in Tasks : SitePushDone(t)
  \/ Clock
  \/ Shutdown
  \/ \E t \in Tasks : Cancel(t)

Spec == Init /\ [][Next]_vars

\* The fetch rounds of the liveness specification: every feed fails, or the
\* feeds deliver one server between them (a stored list hydrated at boot
\* still gives the site probes two batches).
FeedRoundsLive ==
  {r \in FeedResults : Len(fetch_subscription_servers(r)) <= BATCH_SIZE}

\* What task t does when the await it is parked at completes: the feeds
\* answer or time out, a worker thread returns, the engine starts, becomes
\* ready or exits, the probes answer or time out, the KV store and the
\* pushes return.
Completes(t) ==
  \/ FetchDoneFrom(t, FeedRoundsLive) \/ BWrite(t) \/ BClose(t) \/ BSpawn(t) \/ BReady(t)
  \/ BReadout(t) \/ BProbe(t) \/ BTerm(t) \/ BKill(t) \/ BRemove(t)
  \/ EngineExits(t) \/ SaveDone(t) \/ PushDone(t) \/ SitePushDone(t)

\* The service while it is up: the periodic task and the two probing
\* requests, without the teardown (and so without the engines a
\* cancellation leaves behind) and without the cache readers, which touch
\* neither a task nor the lock.
NextLive ==
  \/ Boot
  \/ Wake
  \/ LiveArrive
  \/ SiteArrive
  \/ \E t \in Tasks : Completes(t)
  \/ Clock

\* Every await of a task completes, time passes, and the event loop runs the
\* periodic task when it is due.  Requests arrive when their senders send
\* them: no fairness.
Fairness ==
  /\ \A t \in Tasks : WF_vars(Completes(t))
  /\ WF_vars(Clock)
  /\ WF_vars(Boot)
  /\ WF_vars(Wake)

SpecLive == Init /\ [][NextLive]_vars /\ Fairness

\* The service while it is up, with site-specific requests for the
\* pre-checked URL and for one outside PRECHECK_SITES.
NextSite ==
  \/ Boot
  \/ Wake
  \/ LiveArrive
  \/ SiteArriveFor(SiteUrls)
  \/ \E t \in Tasks : Completes(t)
  \/ Clock

SpecSite == Init /\ [][NextSite]_vars

(***************************************************************************)
(* fetch_subscription_servers on its own: the gather has delivered any     *)
(* `results` of NUM_SUB_URLS feeds of at most MaxFeedLen descriptors each, *)
(* and the function runs from there to its return.                         *)
(***************************************************************************)
RECURSIVE SeqsUpTo(_, _)
SeqsUpTo(S, n) ==
  IF n = 0 THEN {<< >>}
  ELSE LET shorter == SeqsUpTo(S, n - 1)
       IN  shorter \cup {Append(q, x) : q \in shorter, x \in S}

InitDedup ==
  /\ pc = [t \in Tasks |-> "idle"]
  /\ loc = [t \in Tasks |-> Loc0]
  /\ processing_lock = FALSE
  /\ cached_all = None
  /\ cached_top25 = None
  /\ site_cache = [u \in SiteUrls |-> None]
  /\ kv = None
  /\ redis = FALSE
  /\ sleep_left = 0
  /\ proc = [t \in Tasks |-> "none"]
  /\ tmp = [t \in Tasks |-> FALSE]
  /\ orphans = 0
  /\ leaked = 0
  /\ resp = None
  /\ stopping = FALSE
  /\ cancelled = {}
  /\ gathered \in [1 .. NUM_SUB_URLS -> SeqsUpTo(Refs, MaxFeedLen)]
  /\ final_list = None
  /\ held = {}
  /\ arg = None
  /\ ret = None

FetchReturns ==
  /\ IsNone(final_list)
  /\ final_list' = Some(fetch_subscription_servers(gathered))
  /\ UNCHANGED << pc, loc, processing_lock, cached_all, cached_top25, site_cache,
                  kv, redis, sleep_left, proc, tmp, orphans, leaked, resp,
                  stopping, cancelled, gathered, held, arg, ret >>

NextDedup == FetchReturns

SpecDedup == InitDedup /\ [][NextDedup]_vars

(***************************************************************************)
(* Feed lines.  A line of a feed is text; the model holds it as the parts  *)
(* its characters delimit:                                                 *)
(*     scheme "://" [ user "@" ] host [ ":" port ] "?" query "#" frag      *)
(* (user "None": the line has no "@"; port "None": no ":" after the host;  *)
(* a query key at "None": the key is not in the line) and, for a vmess     *)
(* line, the JSON value its Base64 payload decodes to.  A part is a string *)
(* and stays an atom: what the code does to strings (partition at a colon, *)
(* strip brackets, lower-case, percent-coding, Base64, int(), str()) is    *)
(* tabulated over the strings the model feeds it.                          *)
(***************************************************************************)
QueryKeys ==
  {"encryption", "security", "type", "host", "path", "sni", "peer", "flow",
   "fp", "pbk", "sid", "insecure", "obfs", "obfs-password"}

NoQuery == [k \in QueryKeys |-> "None"]

\* A JSON object of a vmess payload; a key at "None" is not in the object.
JsonObject ==
  [kind |-> "object", ps |-> "None", add |-> "None", port |-> "None",
   id |-> "None", scy |-> "None", net |-> "None", host |-> "None",
   path |-> "None", tls |-> "None", sni |-> "None", aid |-> "None"]

\* A payload that is no JSON object: "invalid" (Base64 or JSON does not
\* decode), or valid JSON of kind "number", "string", "list", "null".
JsonOther(kind) == [JsonObject EXCEPT !.kind = kind]

Url(scheme, user, host, port, query, frag) ==
  [scheme |-> scheme, user |-> user, host |-> host, port |-> port,
   query |-> query, frag |-> frag, payload |-> JsonOther("none")]

Vmess(payload) ==
  [scheme |-> "vmess", user |-> "None", host |-> "", port |-> "None",
   query |-> NoQuery, frag |-> "", payload |-> payload]

\* Python truth of an optional string.
Truthy(v) == v \notin {"None", ""}

\* str.isdigit, int(str) and str(int) over the port texts of the model;
\* int("x") raises ValueError.
isdigit(t) == t \in {"0", "443", "70000"}

IntRaises(t) == t \notin {"0", "443", "70000", "-1"}

int(t) ==
  CASE t = "0" -> 0
    [] t = "443" -> 443
    [] t = "70000" -> 70000
    [] t = "-1" -> 0 - 1

str(n) ==
  CASE n = 0 -> "0"
    [] n = 443 -> "443"
    [] n = 70000 -> "70000"
    [] n = 0 - 1 -> "-1"

\* urllib.parse: SplitResult.hostname is the text between "[" and "]" of a
\* bracketed host, else the text before the first ":" of host[:port],
\* lower-cased; None for an empty host.
HasBareColon(host) == host = "2001:db8::1"

hostname(uri) ==
  CASE uri.host = "[2001:db8::1]" -> "2001:db8::1"
    [] uri.host = "2001:db8::1" -> "2001"
    [] uri.host = "A.Example" -> "a.example"
    [] uri.host = "" -> "None"
    [] OTHER -> uri.host

\* SplitResult.port raises ValueError when the text after that colon is not
\* all digits (as is "db8::1:443", the rest of an unbracketed IPv6 host) or
\* exceeds 65535.
PortRaises(uri) ==
  \/ HasBareColon(uri.host)
  \/ /\ uri.port # "None"
     /\ (~ isdigit(uri.port) \/ int(uri.port) > 65535)

\* bool(parsed.port), where it does not raise: None and 0 are false.
HasPort(uri) == uri.port # "None" /\ int(uri.port) # 0

\* Percent-coding: quote (safe "/"), quote_plus as urlencode applies it, and
\* unquote / parse_qs' decoding.
quote(t) ==
  CASE t = "r 1" -> "r%201"
    [] t = "XX 1ms" -> "XX%201ms"
    [] t = "flag-US US 0ms" -> "flag-US%20US%200ms"
    [] t = "flag-US US 2ms" -> "flag-US%20US%202ms"
    [] t = "flag-UN UN 0ms" -> "flag-UN%20UN%200ms"
    [] t = "flag-UN UN 2ms" -> "flag-UN%20UN%202ms"
    [] OTHER -> t

quote_plus(t) == IF t = "/a" THEN "%2Fa" ELSE t

unquote(t) ==
  CASE t = "r%201" -> "r 1"
    [] t = "XX%201ms" -> "XX 1ms"
    [] t = "%2Fa" -> "/a"
    [] OTHER -> t

\* parse_qs(parsed.query).get(key, [default])[0]: parse_qs drops a key whose
\* value is blank.
qs(uri, key, default) ==
  IF Truthy(uri.query[key]) THEN unquote(uri.query[key]) ELSE default

\* base64.urlsafe_b64decode(padded user info).decode("utf-8"); "Error" when
\* either step raises (binascii.Error, UnicodeDecodeError).
urlsafe_b64decode(t) ==
  CASE t = "" -> ""
    [] t = "YWVzOnB3" -> "aes:pw"
    [] t \in {"YWVzOnB3ZA", "YWVzOnB3ZA=="} -> "aes:pwd"
    [] t = "OnB3" -> ":pw"
    [] t = "cHc" -> "pw"
    [] OTHER -> "Error"

\* user_info_decoded.split(":", 1), where the text has a colon.
HasColon(t) == t \in {"aes:pw", "aes:pwd", ":pw"}

BeforeColon(t) == IF t = ":pw" THEN "" ELSE "aes"

AfterColon(t) == IF t = "aes:pwd" THEN "pwd" ELSE "pw"

\* base64.urlsafe_b64encode(f"{method}:{password}").strip("=")
urlsafe_b64encode_stripped(method, password) ==
  CASE method = "aes" /\ password = "pw" -> "YWVzOnB3"
    [] method = "aes" /\ password = "pwd" -> "YWVzOnB3ZA"
    [] method = "" /\ password = "pw" -> "OnB3"

(***************************************************************************)
(* ProxyParser (parse_uri.py).  A call returns a descriptor, returns None, *)
(* or raises.                                                              *)
(***************************************************************************)
Returns(v) == [exc |-> "None", val |-> v]

Raises(e) == [exc |-> e, val |-> None]

_parse_vless_uri(uri) ==
  IF PortRaises(uri) THEN Returns(None)
  ELSE IF ~ (uri.scheme = "vless" /\ Truthy(uri.user) /\ Truthy(hostname(uri))
             /\ HasPort(uri))
  THEN Returns(None)
  ELSE Returns(Some(
         [Blank EXCEPT !.protocol = "vless",
                       !.remark = uri.frag,
                       !.address = hostname(uri),
                       !.port = int(uri.port),
                       !.vless_id = uri.user,
                       !.encryption = qs(uri, "encryption", "none"),
                       !.security = qs(uri, "security", "none"),
                       !.type = qs(uri, "type", "tcp"),
                       !.host = qs(uri, "host", "None"),
                       !.path = qs(uri, "path", "None"),
                       !.sni = qs(uri, "sni", "None"),
                       !.flow = qs(uri, "flow", "None"),
                       !.fp = qs(uri, "fp", "None"),
                       !.pbk = qs(uri, "pbk", "None"),
                       !.sid = qs(uri, "sid", "None"),
                       !.raw_uri = uri]))

\* vmess_data.get on a JSON value that is no object raises AttributeError,
\* which the except clause of line 116 does not name.
_parse_vmess_uri(uri) ==
  LET vmess_data == uri.payload
  IN  CASE vmess_data.kind = "invalid" -> Returns(None)
        [] vmess_data.kind \in {"number", "string", "list", "null"} ->
             Raises("AttributeError")
        [] vmess_data.kind = "object" ->
             IF vmess_data.port # "None" /\ IntRaises(vmess_data.port)
             THEN Returns(None)
             ELSE Returns(Some(
                    [Blank EXCEPT
                       !.protocol = "vmess",
                       !.remark = IF vmess_data.ps = "None" THEN ""
                                  ELSE vmess_data.ps,
                       !.address = vmess_data.add,
                       !.port = IF vmess_data.port = "None" THEN 0
                                ELSE int(vmess_data.port),
                       !.vmess_id = vmess_data.id,
                       !.security = IF vmess_data.scy = "None" THEN "auto"
                                    ELSE vmess_data.scy,
                       !.type = IF vmess_data.net = "None" THEN "tcp"
                                ELSE vmess_data.net,
                       !.host = vmess_data.host,
                       !.path = vmess_data.path,
                       !.tls = IF vmess_data.tls = "None" THEN "none"
                               ELSE vmess_data.tls,
                       !.sni = vmess_data.sni,
                       !.aid = IF vmess_data.aid = "None" THEN "0"
                               ELSE vmess_data.aid,
                       !.raw_uri = uri]))

_parse_trojan_uri(uri) ==
  IF PortRaises(uri) THEN Returns(None)
  ELSE IF ~ (uri.scheme = "trojan" /\ Truthy(uri.user)
             /\ Truthy(hostname(uri)) /\ HasPort(uri))
  THEN Returns(None)
  ELSE Returns(Some(
         [Blank EXCEPT !.protocol = "trojan",
                       !.remark = uri.frag,
                       !.address = hostname(uri),
                       !.port = int(uri.port),
                       !.password = uri.user,
                       !.sni = qs(uri, "sni", qs(uri, "peer", "None")),
                       !.security = qs(uri, "security", "tls"),
                       !.type = qs(uri, "type", "tcp"),
                       !.flow = qs(uri, "flow", "None"),
                       !.path = qs(uri, "path", "None"),
                       !.host = qs(uri, "host", "None"),
                       !.raw_uri = uri]))

\* address_part.rsplit(":", 1) keeps the host as written, brackets and all,
\* and int(port_str) takes any integer.
_parse_ss_uri(uri) ==
  IF uri.user = "None" THEN Returns(None)
  ELSE LET user_info_decoded == urlsafe_b64decode(uri.user)
       IN  IF user_info_decoded = "Error" \/ ~ HasColon(user_info_decoded)
           THEN Returns(None)
           ELSE IF uri.port = "None" \/ IntRaises(uri.port)
           THEN Returns(None)
           ELSE Returns(Some(
                  [Blank EXCEPT !.protocol = "shadowsocks",
                                !.remark = unquote(uri.frag),
                                !.address = uri.host,
                                !.port = int(uri.port),
                                !.method = BeforeColon(user_info_decoded),
                                !.password = AfterColon(user_info_decoded),
                                !.raw_uri = uri]))

_parse_hy2_uri(uri) ==
  IF uri.scheme # "hy2" THEN Returns(None)
  ELSE IF PortRaises(uri) THEN Returns(None)
  ELSE IF ~ (Truthy(hostname(uri)) /\ HasPort(uri) /\ Truthy(uri.user))
  THEN Returns(None)
  ELSE Returns(Some(
         [Blank EXCEPT !.protocol = "hysteria2",
                       !.remark = uri.frag,
                       !.address = hostname(uri),
                       !.port = int(uri.port),
                       !.password = uri.user,
                       !.sni = qs(uri, "sni", "None"),
                       !.insecure = IF qs(uri, "insecure", "0") = "1"
                                    THEN "True" ELSE "False",
                       !.obfs = qs(uri, "obfs", "None"),
                       !.obfs_password = qs(uri, "obfs-password", "None"),
                       !.raw_uri = uri]))

parse(uri) ==
  CASE uri.scheme = "vless" -> _parse_vless_uri(uri)
    [] uri.scheme = "vmess" -> _parse_vmess_uri(uri)
    [] uri.scheme = "trojan" -> _parse_trojan_uri(uri)
    [] uri.scheme = "ss" -> _parse_ss_uri(uri)
    [] uri.scheme = "hy2" -> _parse_hy2_uri(uri)
    [] OTHER -> Returns(None)

(***************************************************************************)
(* UriGenerator (uri_generator.py).  f"{host}:{port}" writes the address   *)
(* as the descriptor holds it, so the line's host part is the address and  *)
(* its port part is str(port).  A parameter is written when its value is   *)
(* truthy.                                                                 *)
(***************************************************************************)
param(v) == IF Truthy(v) THEN quote_plus(v) ELSE "None"

_generate_vless(s) ==
  Url("vless", s.vless_id, s.address, str(s.port),
      [NoQuery EXCEPT !["encryption"] = param(s.encryption),
                      !["security"] = param(s.security),
                      !["type"] = param(s.type),
                      !["host"] = param(s.host),
                      !["path"] = param(s.path),
                      !["sni"] = param(s.sni),
                      !["flow"] = param(s.flow),
                      !["fp"] = param(s.fp),
                      !["pbk"] = param(s.pbk),
                      !["sid"] = param(s.sid)],
      quote(s.remark))

\* The parsed descriptor holds every key read here, so no s.get default
\* applies; a key whose value is None is dropped from the object.
_generate_vmess(s) ==
  Vmess([kind |-> "object", ps |-> s.remark, add |-> s.address,
         port |-> str(s.port), id |-> s.vmess_id, aid |-> s.aid,
         scy |-> s.security, net |-> s.type, host |-> s.host,
         path |-> s.path, tls |-> s.tls, sni |-> s.sni])

_generate_trojan(s) ==
  Url("trojan", s.password, s.address, str(s.port),
      [NoQuery EXCEPT !["security"] = param(s.security),
                      !["sni"] = param(s.sni),
                      !["type"] = param(s.type),
                      !["flow"] = param(s.flow),
                      !["path"] = param(s.path),
                      !["host"] = param(s.host)],
      quote(s.remark))

_generate_ss(s) ==
  Url("ss", urlsafe_b64encode_stripped(s.method, s.password), s.address,
      str(s.port), NoQuery, quote(s.remark))

_generate_hy2(s) ==
  Url("hy2", s.password, s.address, str(s.port),
      [NoQuery EXCEPT !["sni"] = param(s.sni),
                      !["obfs"] = param(s.obfs),
                      !["obfs-password"] = param(s.obfs_password),
                      !["insecure"] = IF s.insecure = "True" THEN "1"
                                      ELSE "None"],
      quote(s.remark))

generate(server) ==
  CASE server.protocol = "vless" -> _generate_vless(server)
    [] server.protocol = "vmess" -> _generate_vmess(server)
    [] server.protocol = "trojan" -> _generate_trojan(server)
    [] server.protocol = "shadowsocks" -> _generate_ss(server)
    [] server.protocol = "hysteria2" -> _generate_hy2(server)
    [] OTHER -> server.raw_uri

\* compute_top_servers, lines 150-164, on one descriptor: the new remark
\* f"{flag} {country_code} {delay}ms" and the regenerated URI.
enrich(server) ==
  LET s_copy == [server EXCEPT !.remark = "XX 1ms"]
  IN  [s_copy EXCEPT !.raw_uri = generate(s_copy)]

(***************************************************************************)
(* The lines the model feeds the parser.                                   *)
(***************************************************************************)
Schemes == {"vless", "trojan", "hy2", "ss", "ssr", "http"}

Users == {"None", "", "pw", "YWVzOnB3", "YWVzOnB3ZA==", "OnB3", "cHc"}

Hosts ==
  {"a.example", "A.Example", "192.0.2.1", "[2001:db8::1]", "2001:db8::1", ""}

PortTexts == {"443", "0", "70000", "-1", "x", "None"}

\* An unbracketed IPv6 host with no port after it is left out: its last
\* group would read as the port.
HostPorts ==
  {hp \in Hosts \X PortTexts : ~ (HasBareColon(hp[1]) /\ hp[2] = "None")}

Queries ==
  { NoQuery,
    [NoQuery EXCEPT !["security"] = "tls", !["sni"] = "s.example",
                    !["type"] = "ws", !["path"] = "%2Fa",
                    !["host"] = "h.example"],
    [NoQuery EXCEPT !["flow"] = "", !["peer"] = "p.example"],
    [NoQuery EXCEPT !["security"] = "reality", !["fp"] = "chrome",
                    !["pbk"] = "key", !["sid"] = "1a",
                    !["flow"] = "xtls-rprx-vision"],
    [NoQuery EXCEPT !["obfs"] = "salamander", !["obfs-password"] = "op",
                    !["insecure"] = "1", !["sni"] = "s.example"] }

Frags == {"", "r%201"}

UrlLines ==
  { Url(scheme, user, hp[1], hp[2], query, frag) :
      scheme \in Schemes, user \in Users, hp \in HostPorts,
      query \in Queries, frag \in Frags }

VmessPayloads ==
  { JsonOther(kind) : kind \in {"invalid", "number", "string", "list", "null"} }
  \cup
  { [JsonObject EXCEPT !.add = add, !.port = port, !.id = id, !.path = path,
                       !.aid = aid] :
      add \in {"None", "a.example", "2001:db8::1"}, port \in PortTexts,
      id \in {"None", "uuid"}, path \in {"None", "", "/a"},
      aid \in {"None", "1"} }

Lines == UrlLines \cup { Vmess(payload) : payload \in VmessPayloads }

(***************************************************************************)
(* The parser on its own: parse runs on any one line.  The rest of the     *)
(* program is at rest.                                                     *)
(***************************************************************************)
AtRest ==
  /\ pc = [t \in Tasks |-> "idle"]
  /\ loc = [t \in Tasks |-> Loc0]
  /\ processing_lock = FALSE
  /\ cached_all = None
  /\ cached_top25 = None
  /\ site_cache = [u \in SiteUrls |-> None]
  /\ kv = None
  /\ redis = FALSE
  /\ sleep_left = 0
  /\ proc = [t \in Tasks |-> "none"]
  /\ tmp = [t \in Tasks |-> FALSE]
  /\ orphans = 0
  /\ leaked = 0
  /\ resp = None
  /\ stopping = FALSE
  /\ cancelled = {}
  /\ gathered = << >>
  /\ final_list = None
  /\ held = {}

StaysAtRest ==
  UNCHANGED << pc, loc, processing_lock, cached_all, cached_top25, site_cache,
               kv, redis, sleep_left, proc, tmp, orphans, leaked, resp,
               stopping, cancelled, gathered, final_list, held >>

InitParse ==
  /\ AtRest
  /\ arg \in Lines
  /\ ret = None

Parse ==
  /\ IsNone(ret)
  /\ ret' = Some(parse(arg))
  /\ UNCHANGED arg
  /\ StaysAtRest

NextParse == Parse

SpecParse == InitParse /\ [][NextParse]_vars

(***************************************************************************)
(* _fetch_single_url on its own, from the response on: the GET failed      *)
(* ("error": raise_for_status, a timeout), the body is HTML, or the body   *)
(* decodes to `lines`.  The list comprehension that parses the lines runs  *)
(* inside the try block, whose except clause returns [] for the feed.      *)
(***************************************************************************)
FeedLines ==
  { Url("trojan", "pw", "a.example", "443", NoQuery, ""),
    Url("vless", "pw", "192.0.2.1", "443", NoQuery, "r%201"),
    Url("trojan", "pw", "a.example", "x", NoQuery, ""),
    Url("http", "None", "a.example", "None", NoQuery, ""),
    Vmess([JsonObject EXCEPT !.add = "a.example", !.port = "443",
                             !.id = "uuid"]),
    Vmess(JsonOther("number")) }

Bodies ==
  [kind : {"ok", "error", "html"}, lines : SeqsUpTo(FeedLines, MaxFeedLen)]

RECURSIVE parsed_batch(_)
parsed_batch(lines) ==
  IF lines = << >> THEN << >>
  ELSE LET p == parse(Head(lines)).val
       IN  (IF IsNone(p) THEN << >> ELSE << The(p) >>)
             \o parsed_batch(Tail(lines))

_fetch_single_url(body) ==
  IF body.kind # "ok" THEN << >>
  ELSE IF \E k \in 1 .. Len(body.lines) : parse(body.lines[k]).exc # "None"
  THEN << >>
  ELSE parsed_batch(body.lines)

InitFeed ==
  /\ AtRest
  /\ arg \in Bodies
  /\ ret = None

FetchSingleUrl ==
  /\ IsNone(ret)
  /\ ret' = Some(_fetch_single_url(arg))
  /\ UNCHANGED arg
  /\ StaysAtRest

NextFeed == FetchSingleUrl

SpecFeed == InitFeed /\ [][NextFeed]_vars

(***************************************************************************)
(* A descriptor's way out and back in: a line is parsed, the descriptor is *)
(* enriched (its raw_uri regenerated by UriGenerator.generate), the URI is *)
(* published, and a consumer of the feed parses it.                        *)
(***************************************************************************)
published(line) == enrich(The(parse(line).val))

InitRoundTrip ==
  /\ AtRest
  /\ arg \in {line \in Lines : parse(line).exc = "None" /\ ~ IsNone(parse(line).val)}
  /\ ret = None

Reparse ==
  /\ IsNone(ret)
  /\ ret' = Some(parse(published(arg).raw_uri))
  /\ UNCHANGED arg
  /\ StaysAtRest

NextRoundTrip == Reparse

SpecRoundTrip == InitRoundTrip /\ [][NextRoundTrip]_vars

(***************************************************************************)
(* build_xray_config_for_batch (xray_service.py).  An outbound is held as  *)
(* a flat record of the settings the code writes; "absent" is a key the    *)
(* code does not write.  Every key read with server.get is one the parser  *)
(* sets (to None where the line has no value), so no get default applies.  *)
(***************************************************************************)
BASE_PORT == 20000

NoOutbound ==
  [protocol |-> "absent", address |-> "absent", port |-> 0, id |-> "absent",
   password |-> "absent", method |-> "absent", flow |-> "absent",
   alterId |-> "absent", userSecurity |-> "absent", network |-> "absent",
   security |-> "absent", wsPath |-> "absent", wsHost |-> "absent",
   serverName |-> "absent", fingerprint |-> "absent",
   publicKey |-> "absent", shortId |-> "absent", obfsType |-> "absent",
   obfsPassword |-> "absent", allowInsecure |-> "absent"]

\* wsSettings = {"path": ...}, and "host" when ws_host is truthy.
wsSettings(server, out) ==
  [out EXCEPT !.wsPath = server.path,
              !.wsHost = IF Truthy(server.host) THEN server.host ELSE "absent"]

sanitize(security) == IF security = "auto" THEN "none" ELSE security

outbound_config(server) ==
  CASE server.protocol = "vless" ->
         LET network == server.type
             security == sanitize(server.security)
             base == [NoOutbound EXCEPT !.protocol = "vless",
                                        !.address = server.address,
                                        !.port = server.port,
                                        !.id = server.vless_id,
                                        !.flow = server.flow,
                                        !.network = network,
                                        !.security = security]
             ws == IF network = "ws" THEN wsSettings(server, base) ELSE base
             tls == IF security \in {"tls", "reality"}
                    THEN [ws EXCEPT !.serverName = server.sni,
                                    !.fingerprint = server.fp]
                    ELSE ws
         IN  IF security = "reality"
             THEN [tls EXCEPT !.publicKey = server.pbk, !.shortId = server.sid]
             ELSE tls
    [] server.protocol = "vmess" ->
         LET network == server.type
             security == sanitize(server.tls)
             base == [NoOutbound EXCEPT !.protocol = "vmess",
                                        !.address = server.address,
                                        !.port = server.port,
                                        !.id = server.vmess_id,
                                        !.alterId = server.aid,
                                        !.userSecurity = server.security,
                                        !.network = network,
                                        !.security = security]
             ws == IF network = "ws" THEN wsSettings(server, base) ELSE base
         IN  IF security = "tls" THEN [ws EXCEPT !.serverName = server.sni]
             ELSE ws
    [] server.protocol = "trojan" ->
         LET base == [NoOutbound EXCEPT !.protocol = "trojan",
                                        !.address = server.address,
                                        !.port = server.port,
                                        !.password = server.password,
                                        !.network = server.type,
                                        !.security = "tls",
                                        !.serverName = server.sni]
         IN  IF server.type = "ws" THEN wsSettings(server, base) ELSE base
    [] server.protocol = "shadowsocks" ->
         [NoOutbound EXCEPT !.protocol = "shadowsocks",
                            !.address = server.address,
                            !.port = server.port,
                            !.method = server.method,
                            !.password = server.password]
    [] server.protocol = "hysteria2" ->
         LET base == [NoOutbound EXCEPT !.protocol = "hysteria2",
                                        !.address = server.address,
                                        !.port = server.port,
                                        !.password = server.password,
                                        !.security = "tls",
                                        !.serverName = server.sni,
                                        !.allowInsecure = server.insecure]
         IN  IF Truthy(server.obfs) /\ server.obfs # "none"
             THEN [base EXCEPT !.obfsType = server.obfs,
                               !.obfsPassword = server.obfs_password]
             ELSE base

Supported(protocol) ==
  protocol \in {"vless", "vmess", "trojan", "shadowsocks", "hysteria2"}

\* f"in-{i}" and f"out-{i}".
inbound_tag(i) == << "in", i >>

outbound_tag(i) == << "out", i >>

\* The rule of every slot names the first inbound.
rule_from_first_inbound(i) ==
  [inboundTag |-> << inbound_tag(0) >>, outboundTag |-> outbound_tag(i)]

routing_rule(i) ==
  [inboundTag |-> << inbound_tag(i) >>, outboundTag |-> outbound_tag(i)]

\* enumerate(servers) counts from 0: slot i is servers[i + 1] here.
build_xray_config_for_batch(servers, base_port) ==
  LET slots == [k \in 1 .. Len(servers) |-> k - 1]
      built == SelectSeq(slots, LAMBDA i : Supported(servers[i + 1].protocol))
  IN  [inbounds |-> [k \in 1 .. Len(servers) |->
                       [tag |-> inbound_tag(slots[k]),
                        port |-> base_port + slots[k]]],
       outbounds |-> [j \in 1 .. Len(built) |->
                        [tag |-> outbound_tag(built[j]),
                         config |-> outbound_config(servers[built[j] + 1])]],
       rules |-> [j \in 1 .. Len(built) |-> routing_rule(built[j])]]

(***************************************************************************)
(* Fingerprint against outbound: _generate_fingerprint and the outbound    *)
(* the config builder writes, for any two descriptors the parser returns.  *)
(***************************************************************************)
Descs ==
  { The(parse(Url(scheme, "pw", "a.example", "443", query, frag)).val) :
      scheme \in {"vless", "trojan", "hy2"}, query \in Queries, frag \in Frags }

InitFingerprint ==
  /\ AtRest
  /\ arg \in Descs \X Descs
  /\ ret = None

Fingerprint ==
  /\ IsNone(ret)
  /\ ret' = Some([fp |-> << generate_fingerprint(arg[1]),
                            generate_fingerprint(arg[2]) >>,
                  outbound |-> << outbound_config(arg[1]),
                                  outbound_config(arg[2]) >>])
  /\ UNCHANGED arg
  /\ StaysAtRest

NextFingerprint == Fingerprint

SpecFingerprint == InitFingerprint /\ [][NextFingerprint]_vars

(***************************************************************************)
(* run_test_batch on its own, as a function of the batch, of what became   *)
(* of the engine (it started and listens; the binary is missing; it exited *)
(* before the readiness wait ended) and of what the HEAD request through   *)
(* each local port meets: a 2xx answer, another status, or an exception    *)
(* (refused, timed out).  The config it builds is kept beside its result.  *)
(***************************************************************************)
MaxBatchLen == 2

BatchDescs ==
  { The(parse(line).val) :
      line \in { Url("vless", "pw", "a.example", "443",
                     [NoQuery EXCEPT !["security"] = "reality",
                                     !["pbk"] = "key", !["sid"] = "1a"], ""),
                 Url("trojan", "pw", "a.example", "443", NoQuery, ""),
                 Url("hy2", "pw", "192.0.2.1", "443", NoQuery, ""),
                 Url("ss", "YWVzOnB3", "192.0.2.1", "443", NoQuery, ""),
                 Vmess([JsonObject EXCEPT !.add = "a.example",
                                          !.port = "443", !.id = "uuid"]) } }

HeadOutcomes == {"2xx", "status", "exception"}

\* The elapsed milliseconds of a 2xx answer, else float("inf").
test_server_real_delay(probe, port) ==
  IF probe[port] = "2xx" THEN 1 ELSE Inf

\* Results handed back in the reverse of the order of the tasks.
gather_reversed(servers, probe) ==
  [k \in 1 .. Len(servers) |->
     test_server_real_delay(probe, BASE_PORT + (Len(servers) - k))]

\* tasks = [test_server_real_delay(BASE_PORT + i) for i, _ in
\* enumerate(servers)]; asyncio.gather returns the results in task order.
gather(servers, probe) ==
  [k \in 1 .. Len(servers) |->
     test_server_real_delay(probe, BASE_PORT + (k - 1))]

zip(servers, results) ==
  [k \in 1 .. Len(servers) |-> [s |-> servers[k], d |-> results[k]]]

run_test_batch(servers, engine, probe) ==
  IF servers = << >> THEN << >>
  ELSE IF engine # "started" THEN AllInf(servers)
  ELSE zip(servers, gather(servers, probe))

InitBatch ==
  /\ AtRest
  /\ \E servers \in SeqsUpTo(BatchDescs, MaxBatchLen) \ {<< >>} :
       arg \in [servers : {servers},
                engine : {"started", "missing", "exited"},
                probe : [BASE_PORT .. BASE_PORT + Len(servers) - 1 -> HeadOutcomes]]
  /\ ret = None

RunTestBatch ==
  /\ IsNone(ret)
  /\ ret' = Some([config |-> build_xray_config_for_batch(arg.servers, BASE_PORT),
                  results |-> run_test_batch(arg.servers, arg.engine, arg.probe)])
  /\ UNCHANGED arg
  /\ StaysAtRest

NextBatch == RunTestBatch

SpecBatch == InitBatch /\ [][NextBatch]_vars

(***************************************************************************)
(* fetch_subscription_servers with its feeds: each SUB_URLS entry is       *)
(* fetched by _fetch_single_url, the gather collects the batches in        *)
(* SUB_URLS order, and the batches are flattened and deduplicated.  A feed *)
(* is held as what became of its request and the descriptors its body      *)
(* holds (references into Pool; for an unreachable feed, the body it would *)
(* have served).                                                           *)
(***************************************************************************)
FeedKinds == {"ok", "unreachable", "http_error", "html"}

Feeds == [kind : FeedKinds, batch : SeqsUpTo(Refs, MaxFeedLen)]

\* A fetch that parses whatever body came back.
body_parsed_anyway(feed) == feed.batch

\* _fetch_single_url, by what it returns: session.get or raise_for_status
\* raises and the except clause returns [] (lines 82-83, 97-99), a body
\* that starts with "<" returns [] (85-87), else the parsed batch.
fetch_single_url_result(feed) ==
  CASE feed.kind = "unreachable" -> << >>
    [] feed.kind = "http_error" -> << >>
    [] feed.kind = "html" -> << >>
    [] OTHER -> feed.batch

\* results = await asyncio.gather(*tasks): one batch per feed, in order.
gather_feeds(feeds) ==
  [k \in 1 .. Len(feeds) |-> fetch_single_url_result(feeds[k])]

InitGather ==
  /\ AtRest
  /\ arg \in [1 .. NUM_SUB_URLS -> Feeds]
  /\ ret = None

FetchSubscriptionServers ==
  /\ IsNone(ret)
  /\ ret' = Some(fetch_subscription_servers(gather_feeds(arg)))
  /\ UNCHANGED arg
  /\ StaysAtRest

NextGather == FetchSubscriptionServers

SpecGather == InitGather /\ [][NextGather]_vars

(***************************************************************************)
(* compute_top_servers after its last batch: all_results holds one         *)
(* (server, delay) pair per probed descriptor; the pairs are filtered,     *)
(* ranked and enriched (lines 145-168).  The GeoIP database is in one of   *)
(* three conditions: no reader was opened, the address is not in it, or    *)
(* the address is found (in the US).  A flag emoji is held as the text     *)
(* "flag-" and the country code.                                           *)
(***************************************************************************)
GeoWorlds == {"no_reader", "not_found", "found"}

\* GeoIPService._get_flag_emoji
_get_flag_emoji(country_code) == "flag-" \o country_code

\* GeoIPService.get_country: (country_code, flag), ("UN", its flag) when
\* there is no reader or the lookup raises.
get_country(world, ip) ==
  IF world = "found" THEN << "US", _get_flag_emoji("US") >>
  ELSE << "UN", "flag-UN" >>

\* The descriptor and the enriched dict are one object: the writes of
\* lines 151-164 land in the descriptor of the fetch stage.
server_aliased(server, s_copy) ==
  [f \in DOMAIN server |-> s_copy[f]]

\* s_copy = server.copy(): the writes of lines 151-164 go to the new dict
\* and the descriptor of the fetch stage stays as it was.
server_after_copy(server, s_copy) == server

\* Lines 150-164 for one (server, delay) of `successful`, the delay already
\* rounded: the enriched dict.
s_copy_of(server, delay, world) ==
  LET geo == get_country(world, server.address)
      new_remark == geo[2] \o " " \o geo[1] \o " " \o ToString(delay) \o "ms"
      keys == DOMAIN server \cup {"delay", "country_code", "flag"}
      enriched == [f \in keys |->
                     CASE f = "delay" -> delay
                       [] f = "country_code" -> geo[1]
                       [] f = "flag" -> geo[2]
                       [] f = "remark" -> new_remark
                       [] OTHER -> server[f]]
  IN  [enriched EXCEPT !["raw_uri"] = generate(enriched)]

\* compute_top_servers from line 145 on: what it returns (enriched_servers)
\* and what has become of the descriptors it was given.
compute_top_servers(all_results, world) ==
  LET ranked == rank_and_enrich(all_results)
      enriched_servers ==
        [k \in 1 .. Len(ranked) |-> s_copy_of(ranked[k].s, ranked[k].delay, world)]
  IN  [enriched_servers |-> enriched_servers,
       servers |-> [k \in 1 .. Len(all_results) |->
                      IF WithinMaxDelay(all_results[k].d)
                      THEN server_after_copy(
                             all_results[k].s,
                             s_copy_of(all_results[k].s, round(all_results[k].d), world))
                      ELSE all_results[k].s]]

\* The delays a probe reports: 0.5 ms, 1.5 ms, MAX_DELAY_MS exactly, half a
\* millisecond more, and a failed probe.
ProbedDelays == {1, 3, 2 * MAX_DELAY_MS, 2 * MAX_DELAY_MS + 1, Inf}

\* all_results: the deduplicated servers, each with its delay.
AllResults ==
  { r \in SeqsUpTo([s : BatchDescs, d : ProbedDelays], MaxBatchLen) :
      \A j, k \in 1 .. Len(r) : j # k => r[j].s # r[k].s }

InitCompute ==
  /\ AtRest
  /\ arg \in [all_results : AllResults, world : GeoWorlds]
  /\ ret = None

ComputeTopServers ==
  /\ IsNone(ret)
  /\ ret' = Some(compute_top_servers(arg.all_results, arg.world))
  /\ UNCHANGED arg
  /\ StaysAtRest

NextCompute == ComputeTopServers

SpecCompute == InitCompute /\ [][NextCompute]_vars

(***************************************************************************)
(* Properties.                                                             *)
(***************************************************************************)
BatchLabels ==
  {"b_write", "b_close", "b_spawn", "b_ready", "b_readout", "b_probe",
   "b_term", "b_kill", "b_remove"}

\* The suspension points inside `async with self._processing_lock`.
ProbeLabels == {"fetch", "persist", "push", "sitepush"} \cup BatchLabels

InFlight(t) == pc[t] \in ProbeLabels

IsResp(task, code) ==
  ~IsNone(resp) /\ The(resp).task = task /\ The(resp).code = code

\* C1: at every moment at most one probe-producing operation (a refresh with
\* its pre-check, a /servers/live run, an on-demand site probe) is in flight.
C1_OneProbeInFlight == Cardinality({t \in Tasks : InFlight(t)}) <= 1

\* A refresh is probing and a /servers/live caller has just been sent away.
C1_Witness == pc["loop"] = "b_probe" /\ IsResp("live", "429")

\* C2: no task is ever blocked on processing_lock: a caller that arrives
\* while the lock is held is turned away and never queued.
C2_NeverQueued == \A t \in Tasks : pc[t] # "blocked"

\* A /servers/live run holds the lock and a site request has just been
\* answered busy.
C2_Witness == InFlight("live") /\ processing_lock /\ IsResp("site", "429")

\* cache_top25 = cache_all[:25], cache_all by non-decreasing delay, every
\* delay within MAX_DELAY_MS.
WellFormedCaches ==
  /\ ~IsNone(cached_all) /\ ~IsNone(cached_top25)
  /\ The(cached_top25) = head_of(The(cached_all))
  /\ \A j, k \in 1 .. Len(The(cached_all)) :
       j <= k => The(cached_all)[j].delay <= The(cached_all)[k].delay
  /\ \A k \in 1 .. Len(The(cached_all)) : The(cached_all)[k].delay <= MAX_DELAY_MS

\* C3: every step of a refresh tick that changes the caches leaves
\* cache_top25 equal to the head of cache_all, cache_all ordered by
\* non-decreasing delay and every delay within MAX_DELAY_MS.
C3_SwapWellFormed ==
  [][ (pc["loop"] # "boot"
       /\ << cached_all, cached_top25 >>' # << cached_all, cached_top25 >>)
      => WellFormedCaches' ]_vars

\* A tick has just swapped in a working set longer than the head, whose
\* members do not all have the same delay.
C3_Witness ==
  /\ pc["loop"] \in {"persist", "push"}
  /\ cached_all = Some(loc["loop"].top)
  /\ Len(loc["loop"].top) > TopN
  /\ loc["loop"].top[1].delay < loc["loop"].top[Len(loc["loop"].top)].delay

\* A step taken by the /servers/live handler.
LiveStep ==
  \/ pc'["live"] # pc["live"]
  \/ loc'["live"] # loc["live"]
  \/ proc'["live"] # proc["live"]
  \/ ~IsNone(resp') /\ The(resp').task = "live"

\* C4: no step of a /servers/live request changes cache_all, cache_top25,
\* site_cache or the persisted working set, and none starts a publish.
C4_LiveFrame ==
  [][ LiveStep => /\ UNCHANGED << cached_all, cached_top25, site_cache, kv >>
                  /\ pc'["live"] \notin {"persist", "push", "sitepush"} ]_vars

\* A live run has answered with a list that the caches do not hold.
C4_Witness ==
  /\ IsResp("live", "200")
  /\ \/ IsNone(cached_top25)
     \/ The(cached_top25) # The(resp).body


\* `not servers_to_test` (subscription_service.py:290)
CacheEmpty == IsNone(cached_all) \/ The(cached_all) = << >>

\* The site-specific handler answers a request for url without a list.
SiteNoList(url) ==
  /\ ~IsNone(resp) /\ The(resp).task = "site" /\ The(resp).url = url
  /\ The(resp).src = "none"

\* C5 as stated: a site-specific request without a fresh entry is answered
\* not-ready (503) whenever cache_all is empty, held lock or not, and busy
\* (429) only when cache_all is non-empty and the lock is held.
C5_NotReadyBeforeBusy ==
  /\ IsResp("site", "429") => ~CacheEmpty /\ processing_lock
  /\ IsResp("site", "503") => CacheEmpty

\* C5 as the code decides it: a site-specific request without a fresh entry
\* is answered busy (429) whenever the lock is held, cache_all empty or not;
\* not-ready (503) only when the lock is free and cache_all is null or
\* empty; otherwise a probe starts (or fails at once, 500).
C5_BusyBeforeNotReady ==
  [][ \A url \in Urls :
        (pc["site"] = "idle" /\ SiteNoList(url)')
        => The(resp').code = IF processing_lock THEN "429"
                             ELSE IF CacheEmpty THEN "503" ELSE "500" ]_vars

\* The first refresh is running on caches that are still null and a
\* site-specific request has just been answered busy.
C5_Witness ==
  /\ IsNone(cached_all) /\ InFlight("loop") /\ IsResp("site", "429")

C7_NoStaleList ==
  \A url \in Urls :
    (~IsNone(resp) /\ The(resp).task = "site" /\ The(resp).url = url)
    => /\ The(resp).src = "cache" => The(resp).age < SITE_CACHE_TTL_SECONDS
       /\ The(resp).src = "probe" =>
            site_cache[url] = Some([age |-> 0, servers |-> The(resp).body])

\* A request found an entry that has reached the TTL and runs a new probe.
C7_Witness ==
  /\ pc["site"] \in BatchLabels
  /\ ~IsNone(site_cache[loc["site"].url])
  /\ ~fresh(The(site_cache[loc["site"].url]))


\* C8: after a batch function (run_test_batch, one iteration of
\* evaluate_site_accessibility) has exited, by whatever path, the temp
\* config file it created no longer exists.
C8_NoTempFileLeft == leaked = 0

\* The engines alive: those a batch owns and those that outlived theirs.
EnginesAlive == Cardinality({t \in Tasks : proc[t] = "running"}) + orphans

\* C9: at most one engine process is alive at any time, across latency
\* batches, site-probe batches and all callers.
C9_OneEngine == EnginesAlive <= 1

\* The engine of a second batch is running (the first batch's has gone).
C9_Witness ==
  \E t \in Tasks : pc[t] = "b_probe" /\ proc[t] = "running" /\ loc[t].i >= BATCH_SIZE
                   /\ EnginesAlive = 1


\* The position of the first descriptor of `flat` with the fingerprint fp.
FirstAt(flat, fp) ==
  CHOOSE i \in 1 .. Len(flat) :
    Fp(flat[i]) = fp /\ \A j \in 1 .. i - 1 : Fp(flat[j]) # fp

DifferOnlyInRemark(a, b) ==
  /\ a # b
  /\ [Pool[a] EXCEPT !.remark = "", !.raw_uri = ""]
       = [Pool[b] EXCEPT !.remark = "", !.raw_uri = ""]

\* C10: the output of fetch_subscription_servers holds exactly one
\* descriptor per fingerprint of the concatenated feed results, namely the
\* first occurrence in feed order, in the order of those first occurrences;
\* descriptors that differ only in remark collapse to the first one.
C10_FirstOccurrenceWins ==
  ~IsNone(final_list) =>
    LET flat == Flatten(gathered)
        out == The(final_list)
        fps == {Fp(flat[i]) : i \in 1 .. Len(flat)}
    IN  /\ Len(out) = Cardinality(fps)
        /\ {Fp(out[k]) : k \in 1 .. Len(out)} = fps
        /\ \A k \in 1 .. Len(out) : out[k] = flat[FirstAt(flat, Fp(out[k]))]
        /\ \A j, k \in 1 .. Len(out) :
             j < k => FirstAt(flat, Fp(out[j])) < FirstAt(flat, Fp(out[k]))
        /\ \A j, k \in 1 .. Len(out) : ~DifferOnlyInRemark(out[j], out[k])

\* Two feeds carried descriptors that differ only in remark, the later one
\* first in feed order, and the output kept that one alone of the two.
C10_Witness ==
  /\ ~IsNone(final_list)
  /\ \E i, j \in 1 .. Len(Flatten(gathered)) :
       /\ i < j
       /\ DifferOnlyInRemark(Flatten(gathered)[i], Flatten(gathered)[j])
       /\ Flatten(gathered)[i] = 2
  /\ \E k \in 1 .. Len(The(final_list)) : The(final_list)[k] = 2
  /\ Len(gathered[1]) > 0 /\ Len(gathered[2]) > 0
  /\ Len(The(final_list)) = 2


\* What the call of the parser specification returned.
Outcome == The(ret)

ParsedOne == ~ IsNone(ret) /\ Outcome.exc = "None" /\ ~ IsNone(Outcome.val)

\* C13: ProxyParser.parse never raises: for every input line, a vmess
\* payload that decodes to valid JSON which is no object included, the call
\* returns a descriptor or None.
C13_ParseNeverRaises == ~ IsNone(ret) => Outcome.exc = "None"

RequiredFields(d) ==
  CASE d.protocol = "vless" -> Truthy(d.vless_id)
    [] d.protocol = "vmess" -> Truthy(d.vmess_id)
    [] d.protocol \in {"trojan", "hysteria2"} -> Truthy(d.password)
    [] d.protocol = "shadowsocks" -> Truthy(d.method) /\ Truthy(d.password)
    [] OTHER -> FALSE

\* C15: every descriptor the parser returns has its protocol set, an address
\* that is not empty, a port in 1..65535, and the fields its protocol
\* requires (vless_id, vmess_id, password, method and password).
C15_ReturnedDescriptorsComplete ==
  ParsedOne =>
    LET d == The(Outcome.val)
    IN  /\ Truthy(d.protocol)
        /\ Truthy(d.address)
        /\ d.port \in 1 .. 65535
        /\ RequiredFields(d)

\* The same holds of the parsers that test all([...]) before they return.
GuardedParsersComplete ==
  (ParsedOne /\ The(Outcome.val).protocol \in {"vless", "trojan", "hysteria2"})
    => C15_ReturnedDescriptorsComplete

Delivered(d) == \E j \in 1 .. Len(The(ret)) : The(ret)[j] = d

\* C14: a malformed line in a feed causes only that line to be skipped: every
\* other line of the feed that parses to a descriptor is delivered by
\* _fetch_single_url, whatever the malformed line is.
C14_OnlyMalformedLineSkipped ==
  (~ IsNone(ret) /\ arg.kind = "ok") =>
    \A k \in 1 .. Len(arg.lines) :
      LET p == parse(arg.lines[k])
      IN  (p.exc = "None" /\ ~ IsNone(p.val)) => Delivered(The(p.val))

\* The same holds of the feeds none of whose lines makes parse raise.
SkippedWhenParseReturns ==
  (\A k \in 1 .. Len(arg.lines) : parse(arg.lines[k]).exc = "None")
    => C14_OnlyMalformedLineSkipped

\* C12: for every descriptor d of a supported protocol that the pipeline
\* produces (parsed, then enriched), parsing the URI that
\* UriGenerator.generate emits for d returns a descriptor d' (not None) with
\* fingerprint(d') = fingerprint(d), for a DNS name, an IPv4 literal and an
\* IPv6 literal as address and for unset optional fields.
C12_RoundTripKeepsFingerprint ==
  ~ IsNone(ret) =>
    /\ Outcome.exc = "None"
    /\ ~ IsNone(Outcome.val)
    /\ generate_fingerprint(The(Outcome.val))
         = generate_fingerprint(published(arg))

\* The same holds of the descriptors whose address has no colon, and of
\* those the generator writes through no host:port split on re-parsing
\* (shadowsocks, whose parser splits at the last colon, and vmess).
RoundTripWithoutBareColon ==
  (published(arg).protocol \in {"shadowsocks", "vmess"}
     \/ ~ HasBareColon(published(arg).address))
    => C12_RoundTripKeepsFingerprint

\* The two descriptors agree on every field but remark and raw_uri.
OnlyRemarkOrUriDiffer(a, b) ==
  [a EXCEPT !.remark = "", !.raw_uri = ""] = [b EXCEPT !.remark = "", !.raw_uri = ""]

\* C11: two descriptors have equal fingerprints iff they designate the same
\* endpoint with the same crypto and transport parameters: descriptors of
\* one protocol whose outbounds differ (trojan in type, path, host or sni;
\* vless in sni, host, fp, pbk or sid; hysteria2 in sni, obfs_password or
\* insecure) have different fingerprints, and descriptors that differ only
\* in remark or raw_uri have equal fingerprints.
C11_FingerprintSeparatesOutbounds ==
  (~ IsNone(ret) /\ arg[1].protocol = arg[2].protocol) =>
    /\ The(ret).outbound[1] # The(ret).outbound[2]
         => The(ret).fp[1] # The(ret).fp[2]
    /\ OnlyRemarkOrUriDiffer(arg[1], arg[2])
         => The(ret).fp[1] = The(ret).fp[2]

\* The second half on its own holds: remark and raw_uri are in no
\* fingerprint of a supported protocol.
RemarkNotInFingerprint ==
  (~ IsNone(ret) /\ OnlyRemarkOrUriDiffer(arg[1], arg[2]))
    => The(ret).fp[1] = The(ret).fp[2]

\* The slots of the batch of the batch specification, as enumerate counts.
Slots == 0 .. Len(arg.servers) - 1

\* C16: in the engine config built for a batch, for every index i the
\* inbound in-i listens on BASE_PORT+i (so all inbound ports are distinct),
\* there is exactly one routing rule whose outboundTag is out-i and its
\* inboundTag list is exactly [in-i], and no inbound is left without a rule.
C16_OneRulePerSlot ==
  ~ IsNone(ret) =>
    LET config == The(ret).config
        InboundsAt(i) ==
          {k \in 1 .. Len(config.inbounds) : config.inbounds[k].tag = << "in", i >>}
        RulesTo(i) ==
          {k \in 1 .. Len(config.rules) : config.rules[k].outboundTag = << "out", i >>}
    IN  /\ Len(config.inbounds) = Len(arg.servers)
        /\ \A i \in Slots :
             /\ Cardinality(InboundsAt(i)) = 1
             /\ \A k \in InboundsAt(i) : config.inbounds[k].port = BASE_PORT + i
             /\ Cardinality(RulesTo(i)) = 1
             /\ \A k \in RulesTo(i) :
                  config.rules[k].inboundTag = << << "in", i >> >>
        /\ \A j, k \in 1 .. Len(config.inbounds) :
             j # k => config.inbounds[j].port # config.inbounds[k].port
        /\ \A k \in 1 .. Len(config.inbounds) :
             \E r \in 1 .. Len(config.rules) :
               config.inbounds[k].tag \in
                 {config.rules[r].inboundTag[m] :
                    m \in 1 .. Len(config.rules[r].inboundTag)}

C16_Witness ==
  /\ ~ IsNone(ret)
  /\ Len(arg.servers) >= 2
  /\ arg.servers[1].protocol = "hysteria2"
  /\ arg.servers[2].protocol = "shadowsocks"
  /\ Len(The(ret).config.rules) = Len(arg.servers)

\* C20: run_test_batch returns exactly one result per batch member, in batch
\* order, where result i is the outcome of the probe through port
\* BASE_PORT+i; a probe that fails or times out yields +infinity for its own
\* index only, changes no other index and does not abort the batch.
C20_ResultPerMemberInOrder ==
  (~ IsNone(ret) /\ arg.engine = "started") =>
    LET results == The(ret).results
    IN  /\ Len(results) = Len(arg.servers)
        /\ \A i \in Slots :
             /\ results[i + 1].s = arg.servers[i + 1]
             /\ results[i + 1].d = Inf <=> arg.probe[BASE_PORT + i] # "2xx"

C20_Witness ==
  /\ ~ IsNone(ret)
  /\ arg.engine = "started"
  /\ Len(arg.servers) >= 2
  /\ arg.probe[BASE_PORT] = "exception"
  /\ arg.probe[BASE_PORT + 1] = "2xx"
  /\ The(ret).results[1].d = Inf
  /\ The(ret).results[2].d < Inf

\* The step of a refresh tick the loop task is parked in: 1 feed fetch,
\* 2 probing of the batches, 3 KV persist, 4 publish, 5 site pre-check;
\* 0 outside a tick.  Ranking, enrichment and the cache swap are the one
\* stretch of code that leaves step 1 or 2.
PhaseOf(pcv, l) ==
  CASE pcv = "fetch" -> 1
    [] pcv \in BatchLabels /\ l.kind = "lat" -> 2
    [] pcv = "persist" -> 3
    [] pcv = "push" -> 4
    [] pcv = "sitepush" \/ (pcv \in BatchLabels /\ l.kind = "site") -> 5
    [] OTHER -> 0

Phase == PhaseOf(pc["loop"], loc["loop"])

AllBatchesProbed ==
  \/ pc["loop"] = "fetch"
  \/ /\ pc["loop"] = "b_remove"
     /\ loc["loop"].pending = "return"
     /\ Len(loc["loop"].all_results) + Len(loc["loop"].batch_results)
          = Len(loc["loop"].servers)

\* C17: within one refresh tick the steps happen in this order, each
\* starting only after the previous one has completed: feed fetch, probing
\* of all batches, ranking, enrichment, cache swap, KV persist, publish,
\* site pre-check; the caches are never swapped before every batch has been
\* probed, and the KV store is never written before the caches are swapped.
C17_TickOrder ==
  [][ LET after == PhaseOf(pc'["loop"], loc'["loop"])
      IN  /\ Phase = 0 => after \in {0, 1}
          /\ (Phase > 0 /\ after > 0) => after >= Phase
          /\ ((cached_all' # cached_all \/ cached_top25' # cached_top25)
                /\ pc["loop"] # "boot")
               => /\ Phase \in {1, 2} /\ after \notin {1, 2}
                  /\ AllBatchesProbed
                  /\ \A k \in 1 .. Len(The(cached_all')) :
                       \E j \in 1 .. Len(loc["loop"].servers) :
                         The(cached_all')[k].s = loc["loop"].servers[j]
          /\ (Phase \in {1, 2} /\ after \in {3, 4, 5})
               => cached_all' = Some(loc'["loop"].top)
          /\ kv' # kv
               => Phase = 3 /\ cached_all = Some(loc["loop"].top)
                    /\ kv' = cached_all
          /\ (after = 4 /\ Phase # 4 /\ redis) => Phase = 3
          /\ (after = 5 /\ Phase # 5) => Phase = 4 ]_vars

C17_Witness ==
  /\ Phase = 5
  /\ Len(loc["loop"].servers) > BATCH_SIZE
  /\ cached_all = Some(loc["loop"].top)
  /\ kv = cached_all
  /\ redis

\* The loop task takes the step that enters update_cache: out of the boot
\* stretch, or out of a sleep that has run its time.
TickStep ==
  /\ \/ pc["loop"] = "boot"
     \/ pc["loop"] = "sleep" /\ sleep_left = 0
  /\ pc'["loop"] # "dead"
  /\ pc'["loop"] # pc["loop"] \/ sleep_left' # sleep_left

\* C18: a periodic tick that finds processing_lock held performs no
\* evaluator run, writes no cache, KV or site_cache entry and publishes
\* nothing; it returns and the loop goes on to its sleep.
C18_BusyTickSkips ==
  [][ (TickStep /\ processing_lock) =>
        /\ pc'["loop"] = "sleep"
        /\ sleep_left' = CACHE_INTERVAL_SECONDS
        /\ loc'["loop"] = Loc0
        /\ processing_lock'
        /\ UNCHANGED << kv, site_cache, tmp, proc >>
        /\ pc["loop"] = "sleep" => UNCHANGED << cached_all, cached_top25 >> ]_vars

\* The loop sleeps a full interval while a request holds the lock in the
\* middle of its probing.
C18_Witness ==
  /\ pc["loop"] = "sleep"
  /\ sleep_left = CACHE_INTERVAL_SECONDS
  /\ processing_lock
  /\ \E t \in {"live", "site"} : pc[t] = "b_probe"

\* Task t takes the step in which run_test_batch learns that it has no
\* engine: create_subprocess_exec raised (the binary is missing), or the
\* process had exited when the readiness wait ended.
EngineFailed(t) ==
  /\ cancelled' = cancelled
  /\ loc[t].kind = "lat"
  /\ \/ pc[t] = "b_spawn" /\ pc'[t] \notin {"b_spawn", "b_ready"}
     \/ pc[t] = "b_readout" /\ pc'[t] # "b_readout"

AllInfinite(results, batch) ==
  /\ Len(results) = Len(batch)
  /\ \A k \in 1 .. Len(batch) : results[k].s = batch[k] /\ results[k].d = Inf

\* Task t takes the step in which run_test_batch hands a batch of +infinity
\* results back to the evaluator.
InfiniteBatchReturns(t) ==
  /\ cancelled' = cancelled
  /\ pc[t] = "b_remove" /\ pc'[t] # "b_remove"
  /\ loc[t].kind = "lat" /\ loc[t].pending = "return"
  /\ AllInfinite(loc[t].batch_results, batch_of(loc[t].servers, loc[t].i))

\* C19: if the engine binary is missing, or the engine has exited by the end
\* of the readiness wait, run_test_batch returns +infinity for every
\* descriptor of that batch (it does not raise), the remaining batches are
\* still processed (the next batch starts unless its temp file cannot be
\* created), and the periodic loop goes on: it ends only by cancellation.
C19_EngineFailureIsAResult ==
  [][ /\ \A t \in {"loop", "live"} :
           /\ EngineFailed(t) =>
                /\ AllInfinite(loc'[t].batch_results,
                               batch_of(loc[t].servers, loc[t].i))
                /\ loc'[t].pending = "return"
                /\ pc'[t] = "b_remove"
                /\ loc'[t].servers = loc[t].servers /\ loc'[t].i = loc[t].i
           /\ (InfiniteBatchReturns(t)
                 /\ loc[t].i + BATCH_SIZE < Len(loc[t].servers)) =>
                \/ /\ pc'[t] = "b_write"
                   /\ loc'[t].i = loc[t].i + BATCH_SIZE
                   /\ loc'[t].all_results
                        = loc[t].all_results \o loc[t].batch_results
                \/ ~ tmp'[t] /\ pc'[t] \in {"sleep", "idle"}
      /\ (InfiniteBatchReturns("loop")
            /\ loc["loop"].i + BATCH_SIZE >= Len(loc["loop"].servers)) =>
           /\ ~ IsNone(cached_all')
           /\ pc'["loop"] \in {"persist", "push", "sleep", "b_write"}
      /\ pc'["loop"] = "dead" => "loop" \in cancelled'
      /\ pc'["loop"] # "blocked" ]_vars

\* The loop's first batch found no engine binary, its results are all
\* +infinity, and a second batch is still to come.
C19_Witness ==
  /\ pc["loop"] = "b_remove"
  /\ proc["loop"] = "none"
  /\ loc["loop"].kind = "lat"
  /\ loc["loop"].pending = "return"
  /\ AllInfinite(loc["loop"].batch_results,
                 batch_of(loc["loop"].servers, loc["loop"].i))
  /\ loc["loop"].i + BATCH_SIZE < Len(loc["loop"].servers)


\* The loop task takes a step out of an adapter call of its tick: the KV
\* save, the publisher push of the main list or of a site list.
AdapterStep ==
  /\ pc["loop"] \in {"persist", "push", "sitepush"}
  /\ pc'["loop"] # pc["loop"]
  /\ cancelled' = cancelled

\* The KV save of the running tick has failed: the connection is up, the
\* save is over, and the store does not hold the list of this tick.
SaveFailed ==
  /\ redis
  /\ Phase \in {4, 5}
  /\ kv # Some(loc["loop"].top)

ProbeRunInFlight ==
  /\ processing_lock
  /\ \E t \in Tasks : pc[t] \in BatchLabels \cup {"fetch"}

\* The site-specific client arrives (its request is taken up).
SiteArrival ==
  /\ pc["site"] = "idle"
  /\ pc'["site"] # "idle" \/ (~ IsNone(resp') /\ The(resp').task = "site")

\* C22: the read-only paths never acquire processing_lock and never wait
\* for a probe run: in every state, whoever holds the lock, get_top_25 and
\* get_all_cached can be answered at once, and a site-specific request that
\* finds a fresh site_cache entry is answered from it at once; none of
\* these steps touches the lock or any task.
C22_ReadersNeverWait ==
  /\ [] ( ~ stopping =>
            /\ ENABLED GetTopServersDep
            /\ ENABLED GetCachedAllBase64
            /\ pc["site"] = "idle" => ENABLED SiteArrive )
  /\ [][ /\ (~ IsNone(resp') /\ The(resp').task \in {"dep", "all"}) =>
              /\ UNCHANGED << processing_lock, pc, loc, proc, tmp >>
              /\ The(resp').code = "503" \/ The(resp').src = "cache"
         /\ SiteArrival =>
              \A url \in Urls :
                (/\ ~ IsNone(site_cache[url])
                 /\ fresh(The(site_cache[url]))
                 /\ \/ loc'["site"].url = url
                    \/ ~ IsNone(resp') /\ The(resp').url = url) =>
                  /\ resp' = Some(Response("site",
                                   IF The(site_cache[url]).servers = << >>
                                   THEN "404" ELSE "200",
                                   The(site_cache[url]).servers, "cache",
                                   The(site_cache[url]).age, url))
                  /\ UNCHANGED << processing_lock, proc, tmp >>
                  /\ pc'["site"] = "idle" ]_vars

\* A site-specific request has just been answered from a fresh entry while
\* a live run holds the lock and is probing.
C22_Witness ==
  /\ ~ IsNone(resp)
  /\ The(resp).task = "site" /\ The(resp).src = "cache"
  /\ pc["live"] = "b_probe"
  /\ ProbeRunInFlight

\* The feeds of `feeds` without the k-th one.
Without(feeds, k) ==
  [j \in 1 .. Len(feeds) - 1 |-> IF j < k THEN feeds[j] ELSE feeds[j + 1]]

Failing(feed) == feed.kind # "ok"

\* The batches of the feeds that answered, in feed order, concatenated.
Answered(feeds) ==
  Flatten([k \in 1 .. Len(feeds) |->
             IF Failing(feeds[k]) THEN << >> ELSE feeds[k].batch])

\* C23: per-feed failures are isolated: a feed that is unreachable, answers
\* with an HTTP error or serves HTML contributes no descriptor, and the
\* output is the one the other feeds alone give: their descriptors, first
\* occurrences in feed order, exactly as if the failing feed were not
\* configured.
C23_FailingFeedIsolated ==
  ~ IsNone(ret) =>
    LET out == The(ret)
        flat == Answered(arg)
    IN  /\ \A k \in 1 .. Len(arg) :
             Failing(arg[k]) =>
               out = fetch_subscription_servers(gather_feeds(Without(arg, k)))
        /\ \A k \in 1 .. Len(out) :
             /\ \E i \in 1 .. Len(flat) : flat[i] = out[k]
             /\ out[k] = flat[FirstAt(flat, Fp(out[k]))]
        /\ \A i \in 1 .. Len(flat) :
             \E k \in 1 .. Len(out) : Fp(out[k]) = Fp(flat[i])
        /\ \A j, k \in 1 .. Len(out) :
             j < k => FirstAt(flat, Fp(out[j])) < FirstAt(flat, Fp(out[k]))

\* One feed failed with a body that held a descriptor no other feed has,
\* the other feed answered, and the output is that feed's batch.
C23_Witness ==
  /\ ~ IsNone(ret)
  /\ \E k \in 1 .. Len(arg) :
       /\ Failing(arg[k])
       /\ Len(arg[k].batch) > 0
       /\ \A j \in 1 .. Len(arg) : j # k =>
            /\ ~ Failing(arg[j])
            /\ Len(arg[j].batch) > 0
            /\ The(ret) = arg[j].batch
            /\ \A i \in 1 .. Len(arg[j].batch) :
                 Fp(arg[j].batch[i]) # Fp(arg[k].batch[1])

\* The host a line names: the literal between the brackets of an IPv6
\* host, else the host as written; host names compare without case.
HostComponent(host) ==
  CASE host = "[2001:db8::1]" -> "2001:db8::1"
    [] host = "A.Example" -> "a.example"
    [] OTHER -> host

\* The method and password a shadowsocks user info is the Base64 of.
SsUserInfo(user) ==
  CASE user = "YWVzOnB3" -> << "aes", "pw" >>
    [] user = "YWVzOnB3ZA==" -> << "aes", "pwd" >>
    [] OTHER -> << "", "" >>

\* A line of the form its scheme prescribes: a credential, a host name, an
\* IPv4 literal or a bracketed IPv6 literal, a port in 1..65535; for vmess
\* a JSON object with add, port and id.
WellFormed(line) ==
  CASE line.scheme \in {"vless", "trojan", "hy2"} ->
         /\ Truthy(line.user)
         /\ line.host \in {"a.example", "A.Example", "192.0.2.1", "[2001:db8::1]"}
         /\ line.port = "443"
    [] line.scheme = "ss" ->
         /\ line.user \in {"YWVzOnB3", "YWVzOnB3ZA=="}
         /\ line.host \in {"a.example", "A.Example", "192.0.2.1", "[2001:db8::1]"}
         /\ line.port = "443"
    [] line.scheme = "vmess" ->
         /\ line.payload.kind = "object"
         /\ Truthy(line.payload.add)
         /\ line.payload.port = "443"
         /\ Truthy(line.payload.id)
    [] OTHER -> FALSE

ProtocolOf(scheme) ==
  CASE scheme = "ss" -> "shadowsocks"
    [] scheme = "hy2" -> "hysteria2"
    [] OTHER -> scheme

\* The descriptor d holds the components of the well-formed line: address
\* (when withAddress), port, credential and remark (the fragment as written
\* or percent-decoded).
HoldsComponents(d, line, withAddress) ==
  /\ d.protocol = ProtocolOf(line.scheme)
  /\ d.port = 443
  /\ CASE line.scheme = "vmess" ->
            /\ withAddress => d.address = line.payload.add
            /\ d.vmess_id = line.payload.id
            /\ d.remark = ""
       [] line.scheme = "ss" ->
            /\ withAddress =>
                 HostComponent(d.address) = HostComponent(line.host)
                   /\ d.address # "[2001:db8::1]"
            /\ d.method = SsUserInfo(line.user)[1]
            /\ d.password = SsUserInfo(line.user)[2]
            /\ d.remark \in {line.frag, IF line.frag = "r%201" THEN "r 1" ELSE ""}
       [] OTHER ->
            /\ withAddress =>
                 HostComponent(d.address) = HostComponent(line.host)
                   /\ d.address # "[2001:db8::1]"
            /\ line.scheme = "vless" => d.vless_id = line.user
            /\ line.scheme \in {"trojan", "hy2"} => d.password = line.user
            /\ line.scheme = "hy2" =>
                 (d.insecure = "True" <=> line.query["insecure"] = "1")
            /\ d.remark \in {line.frag, IF line.frag = "r%201" THEN "r 1" ELSE ""}

ComponentsButSsAddress ==
  ~ IsNone(ret) =>
    /\ WellFormed(arg) =>
         /\ ParsedOne
         /\ HoldsComponents(The(Outcome.val), arg,
                            ~ (arg.scheme = "ss" /\ arg.host = "[2001:db8::1]"))
    /\ arg.scheme \in {"ssr", "http"} => Outcome = Returns(None)

\* v or the default: the value when it is set and not empty.
OrElse(v, default) == IF Truthy(v) THEN v ELSE default

HasTls(out) == out.security \in {"tls", "reality"}

\* The outbound `out` written for the descriptor d follows the fallbacks.
FallbacksApplied(d, out) ==
  /\ HasTls(out) =>
       /\ out.serverName = OrElse(d.sni, OrElse(d.host, d.address))
       /\ Truthy(out.serverName)
  /\ (HasTls(out) /\ d.protocol = "vless") =>
       out.fingerprint = OrElse(d.fp, "chrome")
  /\ out.network = "ws" => out.wsPath = OrElse(d.path, "/")
  /\ d.protocol = "vless" => out.flow = OrElse(d.flow, "")

\* C25: for every descriptor the parser produces, the TLS serverName of its
\* outbound is the descriptor's sni when sni is set, otherwise its host
\* when host is set, otherwise its address, and is never null; likewise
\* fingerprint = fp or "chrome", ws path = path or "/", flow = flow or "".
C25_BuilderFallbacks ==
  ~ IsNone(ret) =>
    \A i \in 1 .. 2 : FallbacksApplied(arg[i], The(ret).outbound[i])

\* What the builder writes is the descriptor's own value, set or not: it
\* agrees with the fallback rule whenever the value is set.
SetValuesWritten ==
  ~ IsNone(ret) =>
    \A i \in 1 .. 2 :
      LET d == arg[i]
          out == The(ret).outbound[i]
      IN  /\ HasTls(out) => out.serverName = d.sni
          /\ (HasTls(out) /\ d.protocol = "vless") => out.fingerprint = d.fp
          /\ out.network = "ws" => out.wsPath = d.path
          /\ d.protocol = "vless" => out.flow = d.flow

ClonedFrom(e, server) ==
  \A f \in DOMAIN server \ {"remark", "raw_uri"} : e[f] = server[f]

\* The remark of the regenerated URI of e: the name in a vmess payload,
\* else the fragment.
RemarkWritten(e) ==
  IF e.protocol = "vmess" THEN e.raw_uri.payload.ps ELSE e.raw_uri.frag

\* C27: compute_top_servers returns exactly the probed descriptors whose
\* delay is <= MAX_DELAY_MS (none whose probe gave +infinity), each once, as
\* an enriched copy: the delay rounded, country code and flag from the
\* GeoIP lookup, the remark "<flag> <cc> <delay>ms" and a raw_uri
\* regenerated with that remark; the descriptors it was given are as they
\* were.
C27_EnrichedCopiesOfTheWorking ==
  ~ IsNone(ret) =>
    LET out == The(ret).enriched_servers
        res == arg.all_results
        cc == IF arg.world = "found" THEN "US" ELSE "UN"
    IN  /\ \A i \in 1 .. Len(res) :
             Cardinality({k \in 1 .. Len(out) : ClonedFrom(out[k], res[i].s)})
               = IF res[i].d <= 2 * MAX_DELAY_MS THEN 1 ELSE 0
        /\ \A k \in 1 .. Len(out) :
             \E i \in 1 .. Len(res) :
               /\ ClonedFrom(out[k], res[i].s)
               /\ res[i].d # Inf
               /\ 2 * out[k].delay - res[i].d \in {0 - 1, 0, 1}
               /\ out[k].country_code = cc
               /\ out[k].flag = "flag-" \o cc
               /\ out[k].remark = out[k].flag \o " " \o cc \o " "
                                    \o ToString(out[k].delay) \o "ms"
               /\ out[k].raw_uri # res[i].s.raw_uri
               /\ RemarkWritten(out[k]) \in
                    {out[k].remark,
                     "flag-" \o cc \o "%20" \o cc \o "%20"
                       \o ToString(out[k].delay) \o "ms"}
        /\ \A j, k \in 1 .. Len(out) : j < k => out[j].delay <= out[k].delay
        /\ The(ret).servers = [i \in 1 .. Len(res) |-> res[i].s]

\* Two descriptors were probed, one answered in time and one probe failed;
\* the address is in the GeoIP database and one enriched copy came back.
C27_Witness ==
  /\ ~ IsNone(ret)
  /\ Len(arg.all_results) = 2
  /\ arg.all_results[1].d = Inf
  /\ arg.all_results[2].d = 3
  /\ arg.world = "found"
  /\ Len(The(ret).enriched_servers) = 1
  /\ The(ret).enriched_servers[1].remark = "flag-US US 2ms"
  /\ The(ret).servers[2] = arg.all_results[2].s

\* The awaits inside the try block of a batch, once the temp file is
\* written.
InTry == {"b_spawn", "b_ready", "b_readout", "b_probe"}

\* Task t leaves its batch function (to the caller, or into a next batch).
LeavesBatch(t) ==
  /\ pc[t] \in BatchLabels
  /\ pc'[t] \notin BatchLabels \/ (pc'[t] = "b_write" /\ pc[t] # "b_write")

\* C28: when a batch ends while its engine is still running, terminate is
\* sent first (the batch waits at the grace timeout); kill is sent only
\* from that wait and only to an engine that has not exited by the end of
\* it, never before terminate and never to an engine that has exited; the
\* wait after terminate or kill ends normally only once the engine has
\* exited, and the batch function returns only then, leaving no engine
\* behind.
C28_TerminateThenKill ==
  [][ \A t \in Tasks :
        /\ (pc[t] \in InTry /\ pc'[t] \notin InTry) =>
             /\ pc'[t] = IF proc[t] = "running" THEN "b_term" ELSE "b_remove"
             /\ proc'[t] = proc[t] \/ pc[t] = "b_spawn"
        /\ (pc'[t] = "b_term" /\ pc[t] # "b_term") =>
             pc[t] \in InTry /\ proc[t] = "running"
        /\ (pc'[t] = "b_kill" /\ pc[t] # "b_kill") =>
             pc[t] = "b_term" /\ proc[t] = "running"
        /\ (pc[t] \in {"b_term", "b_kill"} /\ pc'[t] = "b_remove") =>
             proc[t] = "exited"
        /\ (pc[t] = "b_term" /\ proc[t] = "exited" /\ pc'[t] # "b_term"
              /\ cancelled' = cancelled) => pc'[t] = "b_remove"
        /\ (LeavesBatch(t) /\ cancelled' = cancelled) =>
             /\ pc[t] = "b_remove"
             /\ proc[t] # "running"
             /\ orphans' = orphans ]_vars

\* The engine outlived the grace period: terminate was sent, the wait timed
\* out, kill has been sent and the batch waits for the engine to exit.
C28_Witness ==
  \E t \in Tasks :
    /\ pc[t] = "b_kill"
    /\ proc[t] = "running"
    /\ loc[t].pending = "return"

\* The loop task leaves start_periodic_update's preamble: the adapters are
\* initialised, the KV store has been asked, update_cache is entered.
BootStep ==
  /\ pc["loop"] = "boot"
  /\ pc'["loop"] # "boot"
  /\ cancelled' = cancelled

KvHoldsServers == ~ IsNone(kv) /\ The(kv) # << >>

\* C29: at boot the caches are set from the KV value, and only from a
\* non-empty one that a reachable store delivered, in the stretch that
\* precedes the first refresh; a missing or empty value, a value that
\* cannot be loaded and an unreachable store leave both caches null, and
\* the loop starts all the same (it enters its first tick); the hydration
\* finds the caches null, happens once, and so overwrites nothing a
\* refresh wrote.
C29_HydrationAtBoot ==
  [][ /\ BootStep =>
           /\ IsNone(cached_all) /\ IsNone(cached_top25)
           /\ loc["loop"] = Loc0
           /\ pc'["loop"] \in {"fetch", "sleep"}
           /\ pc'["loop"] = "sleep" => processing_lock
           /\ \/ IsNone(cached_all') /\ IsNone(cached_top25')
              \/ /\ KvHoldsServers /\ redis'
                 /\ cached_all' = kv
                 /\ cached_top25' = Some(SubSeq(The(kv), 1, Min(TopN, Len(The(kv)))))
           /\ (~ KvHoldsServers \/ ~ redis') =>
                IsNone(cached_all') /\ IsNone(cached_top25')
           /\ kv' = kv
      /\ pc'["loop"] = "boot" => pc["loop"] = "boot"
      /\ pc["loop"] = "boot" => IsNone(cached_all) /\ IsNone(cached_top25) ]_vars

\* The first tick is fetching its feeds with the caches holding the list
\* an earlier run had saved (no refresh of this model produces that list).
C29_Witness ==
  /\ pc["loop"] = "fetch"
  /\ redis
  /\ cached_all = Some(<< [s |-> 1, delay |-> 0], [s |-> 3, delay |-> 2] >>)
  /\ cached_all = kv
  /\ ~ IsNone(cached_top25)

\* Task t's readiness wait returns and the batch goes on.
ReadyStep(t) ==
  /\ pc[t] = "b_ready"
  /\ pc'[t] \in {"b_probe", "b_readout"}

\* Task t leaves the try block of a latency batch with a value to return.
BatchAnswer(t) ==
  /\ pc[t] \in {"b_spawn", "b_readout", "b_probe"}
  /\ loc[t].kind = "lat"
  /\ loc'[t].pending = "return"

\* C30: when the readiness wait ends, the probes are launched exactly when
\* the engine is still running, whether the wait saw BASE_PORT accepting or
\* ran into its deadline; after an engine that did start, every member is
\* given +infinity at once only on the branch entered with the engine
\* exited at the end of the wait, and otherwise each member gets the
\* outcome of its own probe.
C30_ReadinessOutcomeUnused ==
  [][\A t \in {"loop", "site"} :
       /\ ReadyStep(t) =>
            /\ loc'[t].ready \in {"True", "False"}
            /\ (pc'[t] = "b_probe") <=> (proc[t] = "running")
            /\ (pc'[t] = "b_readout") <=> (proc[t] = "exited")
            /\ (loc'[t].ready = "False" /\ proc[t] = "running") => pc'[t] = "b_probe"
            /\ proc' = proc
       /\ pc[t] = "b_readout" => proc[t] = "exited"
       /\ (BatchAnswer(t) /\ pc[t] = "b_readout") =>
            loc'[t].batch_results = AllInf(Batch(loc[t]))
       /\ (BatchAnswer(t) /\ pc[t] = "b_probe") =>
            /\ Len(loc'[t].batch_results) = Len(Batch(loc[t]))
            /\ \A k \in 1 .. Len(Batch(loc[t])) :
                 /\ loc'[t].batch_results[k].s = Batch(loc[t])[k]
                 /\ loc'[t].batch_results[k].d \in DelayOutcomes(Batch(loc[t])[k])
       /\ (pc[t] = "b_readout" /\ loc[t].kind = "site" /\ loc'[t].pending = "return") =>
            loc'[t].successful = loc[t].successful ]_vars

\* The deadline elapsed with the engine running, and the loop's batch is
\* awaiting the probes it launched.
C30_Witness ==
  /\ pc["loop"] = "b_probe"
  /\ loc["loop"].ready = "False"
  /\ proc["loop"] = "running"

\* C31: in every reachable state the two caches are both null, or both
\* set with cached_top25 the first TopN entries of cached_all; a reader,
\* which runs between two stretches of the writers, sees the pair as one.
C31_CachesPaired ==
  \/ IsNone(cached_all) /\ IsNone(cached_top25)
  \/ /\ ~ IsNone(cached_all) /\ ~ IsNone(cached_top25)
     /\ Len(The(cached_top25)) = Min(TopN, Len(The(cached_all)))
     /\ \A k \in 1 .. Len(The(cached_top25)) :
          The(cached_top25)[k] = The(cached_all)[k]

\* A refresh is awaiting its probes while the caches hold the longer list
\* hydrated at boot and its head.
C31_Witness ==
  /\ pc["loop"] = "b_probe"
  /\ loc["loop"].kind = "lat"
  /\ ~ IsNone(cached_all)
  /\ Len(The(cached_all)) > TopN
  /\ Len(The(cached_top25)) = TopN

\* Task t is inside an `async with self._processing_lock:` block.
Holds(t) == pc[t] \notin {"boot", "idle", "sleep", "dead", "blocked"}

\* C32: processing_lock is held exactly while some task is inside its
\* `async with` block - every way out of the block releases it -, and when
\* the awaits of the holder complete a held lock becomes free.
C32_LockEventuallyFree ==
  /\ [](processing_lock <=> \E t \in Tasks : Holds(t))
  /\ processing_lock ~> ~ processing_lock

\* A site probe has raised: its request is answered with 500 and the lock
\* is free.
C32_Witness ==
  /\ ~ IsNone(resp)
  /\ The(resp).task = "site"
  /\ The(resp).code = "500"
  /\ pc["site"] = "idle"
  /\ ~ processing_lock

(***************************************************************************)
(* The three locks, statement by statement.  Each coroutine that touches   *)
(* a lock is the sequence of its lock operations and awaits; every        *)
(* operation is a step of its own, so the schedules here include every    *)
(* schedule of the event loop (which switches tasks only at an await and  *)
(* at an acquire that finds the lock held).  arg is each task's path and  *)
(* position, ret the owner of each lock.                                   *)
(***************************************************************************)
Locks == {"processing_lock", "cache_lock", "site_cache_lock"}
SmallLocks == {"cache_lock", "site_cache_lock"}

Op(op, lock, to) == [op |-> op, lock |-> lock, to |-> to]
\* entry of / exit from an `async with lock:` block
Acq(lock) == Op("acq", lock, 0)
Rel(lock) == Op("rel", lock, 0)
\* an await that returns, or raises into the handler or block exit at `to`
\* (0: the awaited coroutine catches its own exceptions)
Await(to) == Op("await", "none", to)
\* an `if` that goes on or jumps to `to`
Branch(to) == Op("branch", "none", to)
Goto(to) == Op("goto", "none", to)
\* `if lock.locked(): return`
IfLocked(lock, to) == Op("locked", lock, to)

\* start_periodic_update with update_cache, _handle_github_push and
\* _handle_precheck_sites inlined (one pre-check site).
start_periodic_update ==
  << Await(0),                        \*  1  load_servers            (256)
     Branch(5),                       \*  2  `if cached:` is false   (257)
     Acq("cache_lock"),               \*  3                          (258)
     Rel("cache_lock"),               \*  4                          (260)
     IfLocked("processing_lock", 19), \*  5  skip the tick           (172)
     Acq("processing_lock"),          \*  6                          (176)
     Await(18),                       \*  7  compute_top_servers     (178)
     Acq("cache_lock"),               \*  8                          (179)
     Rel("cache_lock"),               \*  9                          (181)
     Await(0),                        \* 10  save_servers            (185)
     Await(0),                        \* 11  _handle_github_push     (187)
     Branch(18),                      \* 12  nothing to pre-check    (214)
     Await(18),                       \* 13  evaluate_site_...       (218)
     Acq("site_cache_lock"),          \* 14                          (220)
     Rel("site_cache_lock"),          \* 15                          (221)
     Branch(18),                      \* 16  no site push            (224)
     Await(0),                        \* 17  _push_site_specific_list(225)
     Rel("processing_lock"),          \* 18  end of the block        (191)
     Await(0),                        \* 19  asyncio.sleep           (266)
     Goto(5) >>                       \* 20  while True              (263)

get_top_25 == << Acq("cache_lock"), Rel("cache_lock") >>

get_all_cached == << Acq("cache_lock"), Rel("cache_lock") >>

\* A lookup that keeps _site_cache_lock until it returns.
site_lock_around_all ==
  << Acq("site_cache_lock"),
     Branch(12),
     Acq("cache_lock"),
     Rel("cache_lock"),
     Branch(12),
     IfLocked("processing_lock", 12),
     Acq("processing_lock"),
     Await(11),
     Rel("processing_lock"),
     Goto(12),
     Rel("processing_lock"),
     Rel("site_cache_lock") >>

get_site_specific_servers ==
  << Acq("site_cache_lock"),          \*  1                          (279)
     Rel("site_cache_lock"),          \*  2                          (283)
     Branch(15),                      \*  3  return cached_servers   (283)
     Acq("cache_lock"),               \*  4                          (287)
     Rel("cache_lock"),               \*  5                          (288)
     Branch(15),                      \*  6  return None             (291)
     IfLocked("processing_lock", 15), \*  7  return None             (294)
     Acq("processing_lock"),          \*  8                          (296)
     Await(14),                       \*  9  evaluate_site_...       (297)
     Rel("processing_lock"),          \* 10
     Acq("site_cache_lock"),          \* 11                          (299)
     Rel("site_cache_lock"),          \* 12                          (300)
     Goto(15),                        \* 13  return                  (302)
     Rel("processing_lock") >>        \* 14  the exception leaves the block

\* main.py, get_servers_live
get_servers_live ==
  << IfLocked("processing_lock", 5),  \*  1  429                  (57-58)
     Acq("processing_lock"),          \*  2                          (59)
     Await(4),                        \*  3  compute_top_servers     (60)
     Rel("processing_lock") >>        \*  4

Requests == {"get_top_25", "get_all_cached", "get_site_specific_servers",
             "get_servers_live"}

PathOf(name) ==
  CASE name = "start_periodic_update" -> start_periodic_update
    [] name = "get_top_25" -> get_top_25
    [] name = "get_all_cached" -> get_all_cached
    [] name = "get_site_specific_servers" -> get_site_specific_servers
    [] name = "get_servers_live" -> get_servers_live
    [] OTHER -> << >>

\* The periodic task and two request tasks.
LockTasks == {"loop", "r1", "r2"}

InitLocks ==
  /\ AtRest
  /\ arg = [t \in LockTasks |->
              IF t = "loop" THEN [path |-> "start_periodic_update", pos |-> 1]
              ELSE [path |-> "none", pos |-> 1]]
  /\ ret = [l \in Locks |-> "free"]

AtOp(t, op) ==
  /\ arg[t].pos <= Len(PathOf(arg[t].path))
  /\ PathOf(arg[t].path)[arg[t].pos].op = op

OpOf(t) == PathOf(arg[t].path)[arg[t].pos]

MoveTo(t, pos) == arg' = [arg EXCEPT ![t].pos = pos]

\* A request arrives and its handler starts.
Arrive(t) ==
  /\ arg[t].path = "none"
  /\ \E r \in Requests : arg' = [arg EXCEPT ![t] = [path |-> r, pos |-> 1]]
  /\ UNCHANGED ret
  /\ StaysAtRest

\* asyncio.Lock.acquire: taken when free, else the task stays queued.
Acquire(t) ==
  /\ AtOp(t, "acq")
  /\ ret[OpOf(t).lock] = "free"
  /\ ret' = [ret EXCEPT ![OpOf(t).lock] = t]
  /\ MoveTo(t, arg[t].pos + 1)
  /\ StaysAtRest

Release(t) ==
  /\ AtOp(t, "rel")
  /\ ret' = [ret EXCEPT ![OpOf(t).lock] = "free"]
  /\ MoveTo(t, arg[t].pos + 1)
  /\ StaysAtRest

AwaitReturns(t) ==
  /\ AtOp(t, "await")
  /\ MoveTo(t, arg[t].pos + 1)
  /\ UNCHANGED ret
  /\ StaysAtRest

AwaitRaises(t) ==
  /\ AtOp(t, "await")
  /\ OpOf(t).to > 0
  /\ MoveTo(t, OpOf(t).to)
  /\ UNCHANGED ret
  /\ StaysAtRest

TestLocked(t) ==
  /\ AtOp(t, "locked")
  /\ MoveTo(t, IF ret[OpOf(t).lock] # "free" THEN OpOf(t).to ELSE arg[t].pos + 1)
  /\ UNCHANGED ret
  /\ StaysAtRest

Jump(t) ==
  /\ \/ AtOp(t, "branch") /\ \E to \in {arg[t].pos + 1, OpOf(t).to} : MoveTo(t, to)
     \/ AtOp(t, "goto") /\ MoveTo(t, OpOf(t).to)
  /\ UNCHANGED ret
  /\ StaysAtRest

\* The handler returns (or raises) and the request is answered.
Answer(t) ==
  /\ arg[t].path # "none"
  /\ arg[t].pos > Len(PathOf(arg[t].path))
  /\ arg' = [arg EXCEPT ![t] = [path |-> "none", pos |-> 1]]
  /\ UNCHANGED ret
  /\ StaysAtRest

NextLocks ==
  \/ \E t \in LockTasks : Arrive(t)
  \/ \E t \in LockTasks : Acquire(t)
  \/ \E t \in LockTasks : Release(t)
  \/ \E t \in LockTasks : AwaitReturns(t)
  \/ \E t \in LockTasks : AwaitRaises(t)
  \/ \E t \in LockTasks : TestLocked(t)
  \/ \E t \in LockTasks : Jump(t)
  \/ \E t \in LockTasks : Answer(t)

SpecLocks == InitLocks /\ [][NextLocks]_vars

HeldBy(t) == {l \in Locks : ret[l] = t}

\* Task t is queued on a lock another task holds.
Waits(t) == AtOp(t, "acq") /\ ret[OpOf(t).lock] # "free"

\* C33: a task that holds cache_lock or site_cache_lock holds only one of
\* them and its next operation is the release of it (it takes no lock and
\* awaits nothing); processing_lock is taken with no lock held and the two
\* small locks with at most processing_lock held; so a task queued on a
\* lock waits for a task that is itself queued at most on a small lock,
\* whose holder is never queued: no cycle of waiting tasks.
C33_LockOrder ==
  \A t \in LockTasks :
    /\ Cardinality(HeldBy(t) \cap SmallLocks) <= 1
    /\ HeldBy(t) \cap SmallLocks # {} =>
         /\ AtOp(t, "rel")
         /\ OpOf(t).lock \in SmallLocks
         /\ ret[OpOf(t).lock] = t
    /\ (AtOp(t, "acq") /\ OpOf(t).lock = "processing_lock") => HeldBy(t) = {}
    /\ (AtOp(t, "acq") /\ OpOf(t).lock \in SmallLocks) =>
         HeldBy(t) \subseteq {"processing_lock"}
    /\ AtOp(t, "rel") => ret[OpOf(t).lock] = t
    /\ Waits(t) =>
         LET o == ret[OpOf(t).lock]
         IN  /\ o # t
             /\ Waits(o) =>
                  /\ OpOf(t).lock = "processing_lock"
                  /\ OpOf(o).lock \in SmallLocks
                  /\ ret[OpOf(o).lock] \notin {t, o}
                  /\ ~ Waits(ret[OpOf(o).lock])

\* A request waits for processing_lock, whose holder (the refresh) waits
\* for cache_lock inside its block, which a reader is about to release.
C33_Witness ==
  /\ Waits("r2")
  /\ OpOf("r2").lock = "processing_lock"
  /\ ret["processing_lock"] = "loop"
  /\ Waits("loop")
  /\ OpOf("loop").lock = "cache_lock"
  /\ ret["cache_lock"] = "r1"

\* C34: no step takes cached_all (or cached_top25) from a list back to
\* null, and once cached_all is set the two cache endpoints never answer
\* 503 again.
C34_NeverNullAgain ==
  [][ ~ IsNone(cached_all) =>
        /\ ~ IsNone(cached_all') /\ ~ IsNone(cached_top25')
        /\ ~ (IsResp("dep", "503") \/ IsResp("all", "503"))' ]_vars

\* A refresh that found nothing has put the empty list in the caches (its
\* save failed: the store still holds servers), the loop sleeps, and /cache
\* is answered 200.
C34_Witness ==
  /\ cached_all = Some(<< >>)
  /\ ~ IsNone(kv) /\ The(kv) # << >>
  /\ pc["loop"] = "sleep"
  /\ IsResp("dep", "200")

\* The loop's step that ends the evaluation of a tick (the feed fetch or the
\* last await of a latency batch) without a cancellation.
EvaluationEnds ==
  /\ Phase \in {1, 2}
  /\ PhaseOf(pc'["loop"], loc'["loop"]) \notin {1, 2}
  /\ "loop" \notin cancelled'

\* What compute_top_servers returns when the batch the loop is leaving was
\* its last one.
EvaluatorResult ==
  rank_and_enrich(loc["loop"].all_results \o loc["loop"].batch_results)

\* C35: the step that ends a tick's evaluation either puts the evaluator's
\* list in both caches, empty or not, or - the evaluator raised - leaves
\* them and ends the tick; it is the former whenever the last batch has
\* returned, and then all-infinite delays give the empty list; every feed
\* failing gives the empty list too; the save that follows writes the
\* tick's list, the empty one included.
C35_EmptyResultReplaces ==
  [][ /\ EvaluationEnds =>
           \/ /\ ~ IsNone(cached_all')
              /\ cached_top25' = Some(head_of(The(cached_all')))
              /\ pc["loop"] = "fetch" => cached_all' = Some(<< >>)
              /\ pc["loop"] # "fetch" =>
                   AllBatchesProbed /\ cached_all' = Some(EvaluatorResult)
              /\ pc'["loop"] \in {"persist", "push", "b_write"} =>
                   cached_all' = Some(loc'["loop"].top)
              /\ pc'["loop"] = "persist" <=> redis
           \/ /\ UNCHANGED << cached_all, cached_top25, kv >>
              /\ pc'["loop"] = "sleep" /\ ~ processing_lock'
              /\ pc["loop"] # "fetch" =>
                   ~ (AllBatchesProbed /\ loc["loop"].pending = "return")
      /\ (EvaluationEnds /\ pc["loop"] # "fetch" /\ AllBatchesProbed
            /\ loc["loop"].pending = "return"
            /\ \A k \in 1 .. Len(loc["loop"].all_results \o loc["loop"].batch_results) :
                 (loc["loop"].all_results \o loc["loop"].batch_results)[k].d = Inf)
           => cached_all' = Some(<< >>) /\ cached_top25' = Some(<< >>)
      /\ (pc["loop"] = "persist" /\ kv' # kv) =>
           kv' = Some(loc["loop"].top) /\ kv' = cached_all ]_vars

\* A tick that found nothing has replaced the caches by the empty list and
\* written it to the store, while site_cache still holds servers probed
\* from an earlier, non-empty list.
C35_Witness ==
  /\ pc["loop"] = "sleep"
  /\ redis
  /\ cached_all = Some(<< >>) /\ cached_top25 = Some(<< >>)
  /\ kv = Some(<< >>)
  /\ ~ IsNone(site_cache["pre"])
  /\ The(site_cache["pre"]).servers # << >>

\* xs is ys with some members removed.
IsSubsequence(xs, ys) ==
  \E f \in [1 .. Len(xs) -> 1 .. Len(ys)] :
    /\ \A j, k \in 1 .. Len(xs) : j < k => f[j] < f[k]
    /\ \A k \in 1 .. Len(xs) : xs[k] = ys[f[k]]

\* Task t is inside a site probe (evaluate_site_accessibility).
InSiteProbe(t) == pc[t] \in BatchLabels /\ loc[t].kind = "site"

NotPrechecked == {u \in SiteUrls : \A k \in 1 .. Len(PRECHECK_SITES) : PRECHECK_SITES[k] # u}

\* C36: a site probe starts on the cached_all of that moment and keeps that
\* list; the servers it has found are a subsequence of it, and what is
\* stored in site_cache is what the probe of that URL found; a step that
\* replaces cached_all stores nothing, and the entry of a URL outside
\* PRECHECK_SITES changes only by its age or by a probe of a request for
\* that URL.
C36_SiteEntriesFromProbedList ==
  [][ /\ \A t \in {"loop", "site"} :
           /\ (~ InSiteProbe(t) /\ InSiteProbe(t)') =>
                /\ ~ IsNone(cached_all')
                /\ loc'[t].to_test = The(cached_all')
                /\ loc'[t].successful = << >>
           /\ (InSiteProbe(t) /\ InSiteProbe(t)'
                 /\ loc'[t].site_idx = loc[t].site_idx) =>
                /\ loc'[t].to_test = loc[t].to_test
                /\ loc'[t].url = loc[t].url
           /\ InSiteProbe(t) => IsSubsequence(loc[t].successful, loc[t].to_test)
      /\ \A u \in SiteUrls :
           (site_cache'[u] # site_cache[u]) =>
             \/ /\ ~ IsNone(site_cache[u]) /\ ~ IsNone(site_cache'[u])
                /\ The(site_cache'[u]).servers = The(site_cache[u]).servers
                /\ The(site_cache'[u]).age > The(site_cache[u]).age
             \/ \E t \in {"loop", "site"} :
                  /\ InSiteProbe(t) /\ loc[t].url = u
                  /\ site_cache'[u] = Some([age |-> 0, servers |-> loc[t].successful])
                  /\ IsSubsequence(loc[t].successful, loc[t].to_test)
                  /\ u \in NotPrechecked => t = "site"
      /\ (cached_all' # cached_all) => site_cache' = site_cache ]_vars

\* A request for the URL outside PRECHECK_SITES has just been answered from
\* its fresh entry with a server that a later refresh has dropped from
\* cached_all.
C36_Witness ==
  /\ IsResp("site", "200")
  /\ The(resp).url = "other"
  /\ The(resp).src = "cache"
  /\ ~ IsNone(site_cache["other"])
  /\ fresh(The(site_cache["other"]))
  /\ The(resp).body = The(site_cache["other"]).servers
  /\ ~ IsNone(cached_all)
  /\ \E k \in 1 .. Len(The(resp).body) :
       \A j \in 1 .. Len(The(cached_all)) : The(cached_all)[j].s # The(resp).body[k].s

\* Task t's site batch hands over to the next iteration or to the caller.
SiteBatchReturns(t) ==
  /\ pc[t] = "b_remove"
  /\ pc'[t] # "b_remove"
  /\ loc[t].kind = "site"
  /\ loc[t].pending = "return"
  /\ t \notin cancelled'

\* C37: a site batch whose engine exited early adds nothing to the servers
\* found and is left by `continue`, not by an exception; the batch after it
\* is then started (unless its temp file cannot be created); an on-demand
\* probe that found nothing stores the empty list as an entry of age 0 and
\* is answered 404; and a request that meets a fresh empty entry is
\* answered 404 from the cache, with no probe started.
C37_EarlyExitSiteBatch ==
  [][ /\ \A t \in {"loop", "site"} :
           /\ (pc[t] = "b_readout" /\ pc'[t] # "b_readout"
                 /\ loc[t].kind = "site" /\ t \notin cancelled') =>
                /\ proc[t] = "exited"
                /\ loc'[t].successful = loc[t].successful
                /\ loc'[t].pending = "return"
                /\ pc'[t] = "b_remove"
           /\ (SiteBatchReturns(t) /\ loc[t].i + BATCH_SIZE < Len(loc[t].to_test)) =>
                \/ /\ pc'[t] = "b_write"
                   /\ loc'[t].i = loc[t].i + BATCH_SIZE
                   /\ loc'[t].successful = loc[t].successful
                   /\ loc'[t].to_test = loc[t].to_test
                   /\ site_cache' = site_cache
                \/ ~ tmp'[t] /\ site_cache' = site_cache /\ ~ InSiteProbe(t)'
      /\ (SiteBatchReturns("site")
            /\ loc["site"].i + BATCH_SIZE >= Len(loc["site"].to_test)
            /\ loc["site"].successful = << >>) =>
           /\ site_cache'[loc["site"].url] = Some([age |-> 0, servers |-> << >>])
           /\ resp' = Some(Response("site", "404", << >>, "probe", 0, loc["site"].url))
           /\ ~ processing_lock'
      /\ \A url \in Urls :
           (/\ pc["site"] = "idle" /\ ~ IsNone(resp')
            /\ The(resp').task = "site" /\ The(resp').url = url
            /\ ~ IsNone(site_cache[url])
            /\ fresh(The(site_cache[url]))
            /\ The(site_cache[url]).servers = << >>) =>
             /\ The(resp').code = "404" /\ The(resp').src = "cache"
             /\ UNCHANGED << pc, proc, tmp, processing_lock, site_cache >> ]_vars

\* An on-demand probe of two batches found nothing and its empty entry is
\* fresh: the next request for the URL has been answered 404 from the
\* cache while cached_all holds two servers and no probe runs.
C37_Witness ==
  /\ IsResp("site", "404")
  /\ The(resp).src = "cache"
  /\ site_cache[The(resp).url] = Some([age |-> 0, servers |-> << >>])
  /\ ~ IsNone(cached_all)
  /\ Len(The(cached_all)) > BATCH_SIZE
  /\ pc["site"] = "idle"
  /\ ~ processing_lock

\* No live or on-demand probe is running.
NoRequestProbes == pc["live"] = "idle" /\ pc["site"] = "idle"

\* C38: a tick that finds the lock held starts nothing and the loop sleeps
\* the whole interval, which only the clock shortens; a refresh starts only
\* at a tick that finds the lock free, and every such tick starts one; if
\* from some moment on no live or on-demand probe runs, refreshes start
\* again and again.
C38_SkippedTickWaitsInterval ==
  /\ [][ /\ (TickStep /\ processing_lock) =>
              /\ pc'["loop"] = "sleep"
              /\ sleep_left' = CACHE_INTERVAL_SECONDS
         /\ (TickStep /\ ~ processing_lock) => pc'["loop"] = "fetch"
         /\ (pc["loop"] # "fetch" /\ pc'["loop"] = "fetch") =>
              TickStep /\ ~ processing_lock
         /\ (pc["loop"] = "sleep" /\ pc'["loop"] = "sleep"
               /\ sleep_left' # sleep_left /\ sleep_left' # CACHE_INTERVAL_SECONDS) =>
              sleep_left' = sleep_left - 1 ]_vars
  /\ <>[]NoRequestProbes => []<>(pc["loop"] = "fetch")

\* The tick at boot met a live probe and was skipped; the probe has been
\* answered, the lock is free, and the loop still has its whole interval to
\* sleep with nothing in the caches.
C38_Witness ==
  /\ pc["loop"] = "sleep"
  /\ sleep_left = CACHE_INTERVAL_SECONDS
  /\ ~ processing_lock
  /\ IsNone(cached_all)
  /\ IsNone(kv)
  /\ IsResp("live", "200")
=============================================================================
